---- MODULE Spec2Model ----
(***************************************************************************)
(* A model of the workspace-agents / context-forge scaffolding CLI: the    *)
(* plan/apply engine (scaffold and upgrade), the init command that drives  *)
(* it, the template renderer, the .gitignore appender and the              *)
(* upgrade-workflow skill scripts.                                         *)
(*                                                                         *)
(* Text is a sequence of tokens (a word, a punctuation mark or "\n" each); *)
(* a path is the sequence of its segments, relative to the project root;   *)
(* the filesystem is a function from the existing paths to their nodes.    *)
(***************************************************************************)
EXTENDS Integers, Sequences, FiniteSets, TLC

VARIABLES
    fs,        \* the project tree: path -> node
    pc,        \* where the running command is
    run,       \* what the running command holds (options, action, changes, results)
    hist,      \* ghost: earlier trees of the run, for the claims
    host,      \* the machine: platform, git, what symlink creation does
    txt        \* the inputs and results of the text functions (renderer, gitignore)

vars == <<fs, pc, run, hist, host, txt>>

(***************************************************************************)
(* Bounds of the model.                                                    *)
(***************************************************************************)
MaxExtras == 1       \* entries added to a base tree to form an initial tree
MaxRounds == 2       \* plan/apply rounds of one run
MaxLinkDepth == 2    \* symlink hops followed when a path is resolved
MaxPieces == 2       \* pieces (placeholders, words) of a drawn template body
MaxIgnoreLines == 2
MaxParts == 3  \* lines handed to appendGitignore

(***************************************************************************)
(* Text.                                                                   *)
(***************************************************************************)
\* F applied to the value of v, with v worked out once
Bind(v, F(_)) == CHOOSE y \in {F(x) : x \in {v}} : TRUE

NL == "\n"

\* pat occurs in s at position i
MatchAt(s, pat, i) ==
    /\ i >= 1
    /\ i + Len(pat) - 1 <= Len(s)
    /\ \A j \in 1..Len(pat) : s[i + j - 1] = pat[j]

\* String.prototype.includes
Includes(s, pat) == \E i \in 1..(Len(s) + 1) : MatchAt(s, pat, i)

\* String.prototype.endsWith
EndsWith(s, pat) == MatchAt(s, pat, Len(s) - Len(pat) + 1)

RECURSIVE Concat(_)
Concat(ss) == IF ss = <<>> THEN <<>> ELSE Head(ss) \o Concat(Tail(ss))

\* Array.prototype.join
RECURSIVE JoinWith(_, _)
JoinWith(ss, sep) ==
    IF ss = <<>> THEN <<>>
    ELSE IF Len(ss) = 1 THEN ss[1]
    ELSE ss[1] \o sep \o JoinWith(Tail(ss), sep)

\* The replacement string of String.prototype.replace, expanded for one match:
\* "$$" is a dollar sign and "$&" is the matched text; every other token is itself.
RECURSIVE ExpandReplacement(_, _)
ExpandReplacement(rep, matched) ==
    IF rep = <<>> THEN <<>>
    ELSE IF Len(rep) >= 2 /\ rep[1] = "$" /\ rep[2] = "$"
        THEN <<"$">> \o ExpandReplacement(SubSeq(rep, 3, Len(rep)), matched)
    ELSE IF Len(rep) >= 2 /\ rep[1] = "$" /\ rep[2] = "&"
        THEN matched \o ExpandReplacement(SubSeq(rep, 3, Len(rep)), matched)
    ELSE <<rep[1]>> \o ExpandReplacement(Tail(rep), matched)

\* s.replace(/pat/g, rep) from position i on: leftmost matches, not overlapping
RECURSIVE ReplaceFrom(_, _, _, _)
ReplaceFrom(s, pat, rep, i) ==
    IF i > Len(s) THEN <<>>
    ELSE IF pat # <<>> /\ MatchAt(s, pat, i)
        THEN ExpandReplacement(rep, pat) \o ReplaceFrom(s, pat, rep, i + Len(pat))
    ELSE <<s[i]>> \o ReplaceFrom(s, pat, rep, i + 1)

JsReplaceAll(s, pat, rep) == ReplaceFrom(s, pat, rep, 1)

(***************************************************************************)
(* Paths and the filesystem.  The root <<>> always exists and is a         *)
(* directory.  A symlink's target is kept as written (relative to the      *)
(* link's own directory: `up` parent steps, then `down`); only the last    *)
(* component of a path is followed when it is a link.                      *)
(***************************************************************************)
Dirname(p) == SubSeq(p, 1, Len(p) - 1)
Basename(p) == p[Len(p)]
IsPrefix(a, p) == Len(a) <= Len(p) /\ SubSeq(p, 1, Len(a)) = a
Prefixes(p) == {SubSeq(p, 1, n) : n \in 1..Len(p)}

NoTarget == [up |-> 0, down |-> <<>>]
Dir == [k |-> "dir", c |-> <<>>, t |-> NoTarget]
File(c) == [k |-> "file", c |-> c, t |-> NoTarget]
Link(t) == [k |-> "link", c |-> <<>>, t |-> t]

OutsideRoot == <<"..">>

Put(f, p, n) == [q \in DOMAIN f \cup {p} |-> IF q = p THEN n ELSE f[q]]

\* fs.lstatSync succeeds
Lstat(f, p) == p = <<>> \/ p \in DOMAIN f
NodeAt(f, p) == IF p = <<>> THEN Dir ELSE f[p]

\* where the link at p points, as a path from the root
ResolveLink(p, t) ==
    IF t.up > Len(p) - 1 THEN OutsideRoot
    ELSE SubSeq(p, 1, Len(p) - 1 - t.up) \o t.down

\* the path p names once its links are followed (d hops at most)
RECURSIVE RealPath(_, _, _)
RealPath(f, p, d) ==
    IF p = <<>> \/ p \notin DOMAIN f THEN p
    ELSE IF f[p].k # "link" THEN p
    ELSE IF d = 0 THEN OutsideRoot
    ELSE RealPath(f, ResolveLink(p, f[p].t), d - 1)

Real(f, p) == RealPath(f, p, MaxLinkDepth)

\* fs.existsSync: follows links, false for a dangling link
Exists(f, p) == Lstat(f, Real(f, p)) /\ NodeAt(f, Real(f, p)).k # "link"
IsDirectory(f, p) == Exists(f, p) /\ NodeAt(f, Real(f, p)).k = "dir"
IsFile(f, p) == Exists(f, p) /\ NodeAt(f, Real(f, p)).k = "file"
\* fs.readFileSync of an existing file
ReadFile(f, p) == NodeAt(f, Real(f, p)).c

Ok(f) == [fs |-> f, err |-> "none"]
Fail(f, e) == [fs |-> f, err |-> e]

\* fs.ensureDirSync / mkdir -p
EnsureDirSync(f, p) ==
    IF \E q \in Prefixes(p) : Lstat(f, q) /\ ~IsDirectory(f, q)
    THEN Fail(f, "ENOTDIR")
    ELSE Ok([q \in DOMAIN f \cup Prefixes(p) |-> IF q \in DOMAIN f THEN f[q] ELSE Dir])

\* fs.writeFileSync
WriteFileSync(f, p, content) ==
    LET r == Real(f, p) IN
    IF r = OutsideRoot \/ r = <<>> THEN Fail(f, "EISDIR")
    ELSE IF ~IsDirectory(f, Dirname(r)) THEN Fail(f, "ENOENT")
    ELSE IF Lstat(f, r) /\ f[r].k # "file" THEN Fail(f, "EISDIR")
    ELSE Ok(Put(f, r, File(content)))

\* fs.appendFileSync
AppendFileSync(f, p, content) ==
    WriteFileSync(f, p, (IF IsFile(f, p) THEN ReadFile(f, p) ELSE <<>>) \o content)

\* fs.removeSync: rm -rf, never following a link
RemoveSync(f, p) == [q \in {x \in DOMAIN f : ~IsPrefix(p, x)} |-> f[q]]

Under(f, p) == {q \in DOMAIN f : IsPrefix(p, q)}
Rebase(q, from, to) == to \o SubSeq(q, Len(from) + 1, Len(q))

\* rename(2) of the tree at `from` to the free path `to`
RenameTree(f, from, to) ==
    LET kept == DOMAIN f \ (Under(f, from) \cup Under(f, to))
        moved == {Rebase(q, from, to) : q \in Under(f, from)}
    IN [q \in kept \cup moved |->
            IF q \in moved THEN f[Rebase(q, to, from)] ELSE f[q]]

\* fs-extra moveSync(src, dest), overwrite off
MoveSync(f, from, to) ==
    IF ~Exists(f, from) THEN Fail(f, "ENOENT")
    ELSE IF from = to THEN Fail(f, "Source and destination must not be the same.")
    ELSE IF IsPrefix(from, to) THEN Fail(f, "Cannot move to a subdirectory of itself")
    ELSE IF Exists(f, to) THEN Fail(f, "dest already exists.")
    ELSE LET made == EnsureDirSync(f, Dirname(to)) IN
         IF made.err # "none" THEN made
         ELSE IF Lstat(f, to) /\ f[from].k = "dir" THEN Fail(made.fs, "ENOTDIR")
         ELSE Ok(RenameTree(made.fs, from, to))

(***************************************************************************)
(* The bundled assets: the manifest, the templates and the skills.         *)
(***************************************************************************)
P_AGENTS == <<"agents">>
P_AGENTS_MD == <<"AGENTS.md">>
P_CLAUDE_MD == <<"CLAUDE.md">>
P_README == <<"README.md">>
P_AGENTS_README == <<"agents", "README.md">>
P_SKILLS == <<"agents", "skills">>
P_TOOLS == <<"agents", "tools">>
P_PLANS == <<"agents", "plans">>
P_PLANS_LOCAL == <<"agents", "plans", "local">>
P_OLD_PLANS_LOCAL == <<"plans-local">>
P_TASKS == <<"tasks">>
P_LEGACY == <<"agents", "legacy">>
P_CLAUDE_SKILLS == <<".claude", "skills">>
P_CLAUDE_README == <<".claude", "skills", "README.md">>
P_GITIGNORE == <<".gitignore">>
P_SKILL_LINK == <<".claude", "skills", "skill-creator">>
P_SKILL == <<"agents", "skills", "skill-creator">>

SkillTarget == [up |-> 2, down |-> P_SKILL]

Manifest ==
    [directories |-> <<P_AGENTS, P_SKILLS, P_PLANS_LOCAL, P_CLAUDE_SKILLS>>,
     files |-> <<
        [dest |-> P_AGENTS_MD, template |-> "AGENTS.md.template", skipIfExists |-> TRUE],
        [dest |-> P_CLAUDE_MD, template |-> "CLAUDE.md.template", skipIfExists |-> FALSE],
        [dest |-> P_CLAUDE_README, template |-> "claude-skills-README.md.template",
         skipIfExists |-> TRUE],
        [dest |-> P_PLANS \o <<"tasks.md">>, template |-> "tasks.md.template",
         skipIfExists |-> TRUE]>>,
     symlinks |-> <<[link |-> P_SKILL_LINK, target |-> SkillTarget]>>,
     gitignoreAppend |-> <<<<"agents/plans/local/*">>>>,
     skillsToCopy |-> <<"skill-creator">>]

\* a manifest of two files: none of upgrade's critical files, none under agents/
PlainManifest == [Manifest EXCEPT !.files = SubSeq(@, 1, 2)]

\* a manifest that names a template the package does not bundle
StaleManifest ==
    [PlainManifest EXCEPT !.files = @ \o
        <<[dest |-> P_PLANS \o <<"notes.md">>, template |-> "notes.md.template",
           skipIfExists |-> TRUE]>>]

\* getManifest() of the installed package
getManifest(h) ==
    IF h.manifest = "full" THEN Manifest
    ELSE IF h.manifest = "stale" THEN StaleManifest
    ELSE PlainManifest

Placeholder(key) == <<"{", "{", key, "}", "}">>

TemplateBody ==
    [x \in {"AGENTS.md.template", "CLAUDE.md.template",
            "claude-skills-README.md.template", "tasks.md.template"} |->
        CASE x = "AGENTS.md.template" ->
                <<"#">> \o Placeholder("PROJECT_NAME") \o <<NL>>
                    \o Placeholder("CREATION_DATE") \o Placeholder("AUTHOR")
          [] x = "CLAUDE.md.template" -> <<"See", "AGENTS.md">>
          [] x = "tasks.md.template" -> <<"tasks">>
          [] OTHER -> <<"skills", "of">> \o Placeholder("PROJECT_NAME")]

\* the files of a bundled skill, relative to the skill's directory
BundledSkill ==
    [x \in {"skill-creator"} |-> [q \in {<<"SKILL.md">>} |-> File(<<"skill-creator", "v2">>)]]

(***************************************************************************)
(* template-engine                                                         *)
(***************************************************************************)
\* one entry of Object.entries(variables)
RenderOne(content, var) == JsReplaceAll(content, Placeholder(var.key), var.value)

RECURSIVE renderTemplate(_, _)
renderTemplate(content, variables) ==
    IF variables = <<>> THEN content
    ELSE renderTemplate(RenderOne(content, Head(variables)), Tail(variables))

TemplateFound(name) == name \in DOMAIN TemplateBody

getDefaultVariables(projectName) ==
    <<[key |-> "PROJECT_NAME", value |-> projectName],
      [key |-> "CREATION_DATE", value |-> <<"2025-01-01">>],
      [key |-> "FRAMEWORK_VERSION", value |-> <<"1.0.0">>]>>

loadAndRender(name, variables) == renderTemplate(TemplateBody[name], variables)

(***************************************************************************)
(* file-ops                                                                *)
(***************************************************************************)
ensureDir(f, p) == IF Exists(f, p) THEN Ok(f) ELSE EnsureDirSync(f, p)

\* a writeFile that adds to the file it finds
writeFileAppending(f, p, content, skipIfExists) ==
    IF skipIfExists /\ Exists(f, p) THEN Ok(f)
    ELSE LET made == EnsureDirSync(f, Dirname(p)) IN
         IF made.err # "none" THEN made ELSE AppendFileSync(made.fs, p, content)

\* writeFile(filePath, content, options)
writeFile(f, p, content, skipIfExists) ==
    IF skipIfExists /\ Exists(f, p) THEN Ok(f)
    ELSE LET made == EnsureDirSync(f, Dirname(p)) IN
         IF made.err # "none" THEN made ELSE WriteFileSync(made.fs, p, content)

appendFile(f, p, content) ==
    LET made == EnsureDirSync(f, Dirname(p)) IN
    IF made.err # "none" THEN made ELSE AppendFileSync(made.fs, p, content)

GitignoreHeader == <<"# Workspace Agents", NL>>

\* the lines appendGitignore finds missing
GitignoreAdded(existing, lines) == SelectSeq(lines, LAMBDA l : ~Includes(existing, l))

\* the text appendGitignore appends to `existing`
GitignoreBlock(existing, lines) ==
    LET added == GitignoreAdded(existing, lines) IN
    IF added = <<>> THEN <<>>
    ELSE (IF EndsWith(existing, <<NL>>) THEN <<>> ELSE <<NL>>)
            \o GitignoreHeader \o JoinWith(added, <<NL>>) \o <<NL>>

\* an appendGitignore that does not look at the file first
appendGitignoreUnchecked(f, lines) ==
    LET existing == IF Exists(f, P_GITIGNORE) THEN ReadFile(f, P_GITIGNORE) ELSE <<>>
        block == GitignoreBlock(<<>>, lines)
    IN IF lines = <<>> THEN Ok(f)
       ELSE appendFile(f, P_GITIGNORE, IF EndsWith(existing, <<NL>>) THEN Tail(block) ELSE block)

appendGitignore(f, lines) ==
    LET existing == IF Exists(f, P_GITIGNORE) THEN ReadFile(f, P_GITIGNORE) ELSE <<>>
        block == GitignoreBlock(existing, lines)
    IN IF block = <<>> THEN Ok(f) ELSE appendFile(f, P_GITIGNORE, block)

\* fs.copySync(src, dest) of a bundled skill: directories merge, files overwrite
copyDir(f, name, dest) ==
    LET files == BundledSkill[name]
        made == EnsureDirSync(f, dest)
    IN IF Lstat(f, dest) /\ ~IsDirectory(f, dest)
            THEN Fail(f, "Cannot overwrite non-directory with directory")
       ELSE IF made.err # "none" THEN made
       ELSE IF \E q \in DOMAIN files : Lstat(made.fs, dest \o q) /\ ~IsFile(made.fs, dest \o q)
            THEN Fail(made.fs, "EISDIR")
       ELSE Ok([q \in DOMAIN made.fs \cup {dest \o r : r \in DOMAIN files} |->
                    IF IsPrefix(dest, q) /\ SubSeq(q, Len(dest) + 1, Len(q)) \in DOMAIN files
                    THEN files[SubSeq(q, Len(dest) + 1, Len(q))]
                    ELSE made.fs[q]])

(***************************************************************************)
(* symlink-ops.  `h` is the host: h.win32, h.probe (the test link that     *)
(* isSymlinkSupported creates on Windows succeeded) and h.symlink, what    *)
(* fs.symlinkSync does in the project: "ok" or the error code it throws;   *)
(* h.manifest names the manifest.json the installed package bundles.       *)
(***************************************************************************)
\* isSymlinkSupported without the test link of Windows
isSymlinkSupportedNoProbe(h) == TRUE

isSymlinkSupported(h) == IF h.win32 THEN h.probe ELSE TRUE

\* createSymlink(target, linkPath, {force}): `warned` when the EPERM of
\* Windows was swallowed
createSymlink(f, h, target, linkPath, force) ==
    LET made == EnsureDirSync(f, Dirname(linkPath))
        same == /\ ~force
                /\ Lstat(made.fs, linkPath)
                /\ made.fs[linkPath].k = "link"
                /\ made.fs[linkPath].t = target
        cleared == IF Exists(made.fs, linkPath)
                   THEN RemoveSync(made.fs, linkPath) ELSE made.fs
    IN IF made.err # "none" THEN [fs |-> f, err |-> made.err, warned |-> FALSE]
       ELSE IF Exists(made.fs, linkPath) /\ same
            THEN [fs |-> made.fs, err |-> "none", warned |-> FALSE]
       ELSE IF Lstat(cleared, linkPath)
            THEN [fs |-> cleared, err |-> "EEXIST", warned |-> FALSE]
       ELSE IF h.symlink = "ok"
            THEN [fs |-> Put(cleared, linkPath, Link(target)), err |-> "none",
                  warned |-> FALSE]
       ELSE IF h.symlink = "EPERM" /\ h.win32
            THEN [fs |-> cleared, err |-> "none", warned |-> TRUE]
       ELSE [fs |-> cleared, err |-> h.symlink, warned |-> FALSE]

(***************************************************************************)
(* Change sets and the operations apply performs, in its order.            *)
(***************************************************************************)
EmptyChanges ==
    [type |-> "none", directories |-> <<>>, files |-> <<>>, symlinks |-> <<>>,
     gitignore |-> <<>>, skillsToCopy |-> <<>>, moves |-> <<>>, modifications |-> <<>>,
     creates |-> <<>>, newFiles |-> <<>>, legacy |-> <<>>, skillsToUpdate |-> <<>>,
     symlinkFixes |-> <<>>]

FileCreate(path, template, variables) ==
    [action |-> "create", path |-> path, template |-> template,
     variables |-> variables, reason |-> ""]
FileSkip(path, reason) ==
    [action |-> "skip", path |-> path, template |-> "", variables |-> <<>>,
     reason |-> reason]

OpBase ==
    [op |-> "", path |-> <<>>, to |-> <<>>, template |-> "", variables |-> <<>>,
     target |-> NoTarget, lines |-> <<>>, name |-> ""]
OpEnsureDir(p) == [OpBase EXCEPT !.op = "ensureDir", !.path = p]
OpWriteFile(e) ==
    [OpBase EXCEPT !.op = "writeFile", !.path = e.path, !.template = e.template,
                   !.variables = e.variables]
OpSymlink(l) == [OpBase EXCEPT !.op = "symlink", !.path = l.link, !.target = l.target]
OpGitignore(lines) == [OpBase EXCEPT !.op = "gitignore", !.lines = lines]
OpCopyNewSkill(n) == [OpBase EXCEPT !.op = "copyNewSkill", !.name = n]
OpCopySkill(n) == [OpBase EXCEPT !.op = "copySkill", !.name = n]
OpUpdateSkill(n) == [OpBase EXCEPT !.op = "updateSkill", !.name = n]
OpMove(m) == [OpBase EXCEPT !.op = "move", !.path = m.from, !.to = m.to]
OpModify(m) == [OpBase EXCEPT !.op = "modify", !.path = m.path]

MapSeq(s, F(_)) == [i \in 1..Len(s) |-> F(s[i])]

(***************************************************************************)
(* scaffold                                                                *)
(***************************************************************************)
\* the file rule without its second skip branch
ScaffoldPlanFileNoSecondSkip(f, opts, file, variables) ==
    IF Exists(f, file.dest) /\ file.skipIfExists /\ ~opts.force
        THEN FileSkip(file.dest, "already exists")
    ELSE FileCreate(file.dest, file.template, variables)

ScaffoldPlanFile(f, opts, file, variables) ==
    IF Exists(f, file.dest) /\ file.skipIfExists /\ ~opts.force
        THEN FileSkip(file.dest, "already exists")
    ELSE IF Exists(f, file.dest) /\ ~opts.force
        THEN FileSkip(file.dest, "already exists (use --force to overwrite)")
    ELSE FileCreate(file.dest, file.template, variables)

ScaffoldPlanSymlinks(f, opts, h) ==
    IF ~opts.skipSymlinks /\ isSymlinkSupported(h)
    THEN SelectSeq(getManifest(h).symlinks, LAMBDA l : ~Exists(f, l.link) \/ opts.force)
    ELSE <<>>

\* "Plan gitignore additions" for the lines the manifest lists
PlanGitignore(f, lines) ==
    LET existing == IF Exists(f, P_GITIGNORE) THEN ReadFile(f, P_GITIGNORE) ELSE <<>>
    IN SelectSeq(lines, LAMBDA l : ~Includes(existing, l))

ScaffoldPlanGitignore(f, h) == PlanGitignore(f, getManifest(h).gitignoreAppend)

\* scaffold.plan(projectRoot, options)
ScaffoldPlan(f, opts, h, projectName) ==
    LET variables == getDefaultVariables(projectName) IN
    [EmptyChanges EXCEPT
        !.type = "scaffold",
        !.directories = SelectSeq(getManifest(h).directories, LAMBDA d : ~Exists(f, d)),
        !.files = MapSeq(getManifest(h).files,
                         LAMBDA file : ScaffoldPlanFile(f, opts, file, variables)),
        !.symlinks = ScaffoldPlanSymlinks(f, opts, h),
        !.gitignore = ScaffoldPlanGitignore(f, h),
        !.skillsToCopy = getManifest(h).skillsToCopy]

\* scaffold.apply without its file loop
ScaffoldOpsNoFiles(changes) ==
    MapSeq(changes.directories, OpEnsureDir)
    \o MapSeq(changes.symlinks, OpSymlink)
    \o (IF changes.gitignore # <<>> THEN <<OpGitignore(changes.gitignore)>> ELSE <<>>)

\* scaffold.apply with its symlink loop before its file loop
ScaffoldOpsLinksFirst(changes) ==
    MapSeq(changes.directories, OpEnsureDir)
    \o MapSeq(changes.symlinks, OpSymlink)
    \o MapSeq(SelectSeq(changes.files, LAMBDA e : e.action = "create"), OpWriteFile)
    \o (IF changes.gitignore # <<>> THEN <<OpGitignore(changes.gitignore)>> ELSE <<>>)
    \o (IF changes.skillsToCopy # <<>>
        THEN <<OpEnsureDir(P_SKILLS)>> \o MapSeq(changes.skillsToCopy, OpCopyNewSkill)
        ELSE <<>>)

\* the operations of scaffold.apply(changes, projectRoot), in order
ScaffoldOps(changes) ==
    MapSeq(changes.directories, OpEnsureDir)
    \o MapSeq(SelectSeq(changes.files, LAMBDA e : e.action = "create"), OpWriteFile)
    \o MapSeq(changes.symlinks, OpSymlink)
    \o (IF changes.gitignore # <<>> THEN <<OpGitignore(changes.gitignore)>> ELSE <<>>)
    \o (IF changes.skillsToCopy # <<>>
        THEN <<OpEnsureDir(P_SKILLS)>> \o MapSeq(changes.skillsToCopy, OpCopyNewSkill)
        ELSE <<>>)

(***************************************************************************)
(* upgrade                                                                 *)
(***************************************************************************)
\* the backquote character of the second terminology pattern
BQ == "bq"

MIGRATIONS ==
    [directories |-> <<
        [from |-> P_TOOLS, to |-> P_SKILLS],
        [from |-> P_OLD_PLANS_LOCAL, to |-> P_PLANS_LOCAL],
        [from |-> P_TASKS, to |-> P_PLANS]>>,
     terminology |-> <<
        [from |-> <<"agents", "/", "tools">>, to |-> <<"agents", "/", "skills">>],
        [from |-> <<BQ, "tools", "/", BQ>>, to |-> <<BQ, "skills", "/", BQ>>],
        [from |-> <<"tools", "/">>, to |-> <<"skills", "/">>],
        [from |-> <<"plans-local">>, to |-> <<"agents", "/", "plans", "/", "local">>]>>]

Terms == 1..Len(MIGRATIONS.terminology)
FreshLastIndex == [t \in Terms |-> 0]

filesToUpdate == <<P_AGENTS_MD, P_AGENTS_README, P_README>>
criticalFiles ==
    <<P_CLAUDE_README, <<".cursor", "rules", "project.mdc">>,
      <<".github", "copilot-instructions.md">>>>
oldPatterns == <<<<"CONTRIBUTING.md">>, <<"DEVELOPMENT.md">>>>

Min(S) == CHOOSE x \in S : \A y \in S : x <= y

\* RegExp.prototype.test of a /g pattern whose lastIndex is li
RegexTest(content, pat, li) ==
    LET hits == {i \in (li + 1)..Len(content) : MatchAt(content, pat, i)} IN
    IF hits = {} THEN [found |-> FALSE, li |-> 0]
    ELSE [found |-> TRUE, li |-> Min(hits) + Len(pat) - 1]

\* the terminology loop over filesToUpdate; li is the lastIndex of each pattern
RECURSIVE PlanModifications(_, _, _)
PlanModifications(f, files, li) ==
    IF files = <<>> THEN [mods |-> <<>>, li |-> li]
    ELSE IF ~Exists(f, Head(files)) THEN PlanModifications(f, Tail(files), li)
    ELSE LET content == ReadFile(f, Head(files))
             res == [t \in Terms |->
                        RegexTest(content, MIGRATIONS.terminology[t].from, li[t])]
             updates == SelectSeq([t \in Terms |-> t], LAMBDA t : res[t].found)
             rest == PlanModifications(f, Tail(files), [t \in Terms |-> res[t].li])
         IN [mods |-> (IF updates # <<>>
                       THEN <<[path |-> Head(files), updates |-> updates]>>
                       ELSE <<>>) \o rest.mods,
             li |-> rest.li]

ManifestFileFor(h, dest) == SelectSeq(getManifest(h).files, LAMBDA mf : mf.dest = dest)

PlanCreates(f, h, variables) ==
    LET missing == SelectSeq(criticalFiles,
                       LAMBDA c : ~Exists(f, c) /\ ManifestFileFor(h, c) # <<>>)
    IN MapSeq(missing,
              LAMBDA c : FileCreate(c, ManifestFileFor(h, c)[1].template, variables))

\* "Ensure directories exist for creates" iterates changes.creates and unshifts
\* into it: once an entry's directory is missing the entry is visited again
\* after every unshift, and the loop does not end.
CreatesLoopEnds(f, creates) ==
    \A i \in 1..Len(creates) : Exists(f, Dirname(creates[i].path))

\* validateSymlinks without the lstatSync of the not-existing branch
validateSymlinkNoLstat(f, spec) ==
    IF ~Exists(f, spec.link) THEN "missing"
    ELSE IF f[spec.link].k = "link" /\ f[spec.link].t = spec.target THEN "valid"
    ELSE "wrong_target"

validateSymlink(f, spec) ==
    IF ~Exists(f, spec.link)
        THEN IF Lstat(f, spec.link) THEN "broken" ELSE "missing"
    ELSE IF f[spec.link].k = "link" /\ f[spec.link].t = spec.target THEN "valid"
    ELSE "wrong_target"

findLegacyFiles(f) ==
    SelectSeq(oldPatterns,
        LAMBDA p : /\ Exists(f, p)
                   /\ \/ Includes(ReadFile(f, p), <<"agents", "/", "tools">>)
                      \/ Includes(ReadFile(f, p), <<"plans-local">>))

\* a legacy plan that does not look at agents/legacy
PlanLegacyAnyDest(f) ==
    MapSeq(findLegacyFiles(f), LAMBDA p : [from |-> p, to |-> P_LEGACY \o <<Basename(p)>>])

PlanLegacy(f) ==
    MapSeq(SelectSeq(findLegacyFiles(f),
                     LAMBDA p : ~Exists(f, P_LEGACY \o <<Basename(p)>>)),
           LAMBDA p : [from |-> p, to |-> P_LEGACY \o <<Basename(p)>>])

(***************************************************************************)
(* project-detector, of workflow-agents (also context-forge's) and of      *)
(* workspace-agents                                                        *)
(***************************************************************************)
detectExistingFramework(f) == Exists(f, P_AGENTS) \/ Exists(f, P_AGENTS_MD)

MissingPieces(f) ==
    /\ Exists(f, P_AGENTS)
    /\ \/ ~Exists(f, P_SKILLS)
       \/ ~Exists(f, P_PLANS_LOCAL)
       \/ ~Exists(f, P_CLAUDE_SKILLS)

analyzeStructure(f) ==
    LET hasOldStructure == Exists(f, P_TOOLS) \/ Exists(f, P_OLD_PLANS_LOCAL)
    IN [hasOldStructure |-> hasOldStructure,
        needsUpgrade |-> hasOldStructure \/ MissingPieces(f),
        missingFiles |-> <<>>]

\* a manifest destination analyzeStructure checks: under agents/, no README.md
CheckedFile(dest) == dest[1] = "agents" /\ Len(dest) > 1 /\ Basename(dest) # "README.md"

\* analyzeStructure of workspace-agents
analyzeStructureWA(f, h) ==
    LET hasAgents == Exists(f, P_AGENTS)
        hasOldStructure == Exists(f, P_TOOLS) \/ Exists(f, P_OLD_PLANS_LOCAL)
        missingSkills ==
            IF hasAgents /\ Exists(f, P_SKILLS)
            THEN SelectSeq(getManifest(h).skillsToCopy,
                    LAMBDA n : n \in DOMAIN BundledSkill /\ ~Exists(f, P_SKILLS \o <<n>>))
            ELSE <<>>
        brokenSymlinksList ==
            IF hasAgents /\ isSymlinkSupported(h)
            THEN SelectSeq(getManifest(h).symlinks,
                    LAMBDA l : validateSymlink(f, l) \in {"broken", "missing", "wrong_target"})
            ELSE <<>>
        missingFiles ==
            IF hasAgents
            THEN MapSeq(SelectSeq(getManifest(h).files,
                            LAMBDA mf : CheckedFile(mf.dest) /\ ~Exists(f, mf.dest)),
                        LAMBDA mf : mf.dest)
            ELSE <<>>
    IN [hasOldStructure |-> hasOldStructure,
        needsUpgrade |-> \/ hasOldStructure \/ MissingPieces(f)
                         \/ missingSkills # <<>> \/ brokenSymlinksList # <<>>
                         \/ missingFiles # <<>>,
        missingFiles |-> missingFiles]

analysisOf(f, h, pkg) ==
    IF pkg = "workspace-agents" THEN analyzeStructureWA(f, h) ELSE analyzeStructure(f)

determineAction(f, h, pkg) ==
    IF ~detectExistingFramework(f) THEN "scaffold"
    ELSE IF analysisOf(f, h, pkg).needsUpgrade THEN "upgrade"
    ELSE "none"

\* the layout determineAction reports in its reason: no framework, the old
\* structure, or neither
classifyLayout(f, h, pkg) ==
    IF ~detectExistingFramework(f) THEN "NoFramework"
    ELSE IF analysisOf(f, h, pkg).hasOldStructure THEN "LegacyLayout"
    ELSE "CurrentLayout"

\* a plan of moves that does not look at the destination
PlanMovesAnyDest(f) == SelectSeq(MIGRATIONS.directories, LAMBDA m : Exists(f, m.from))

\* "Plan directory moves"
PlanMoves(f) ==
    SelectSeq(MIGRATIONS.directories, LAMBDA m : Exists(f, m.from) /\ ~Exists(f, m.to))

\* upgrade.plan(projectRoot, options) of package pkg; li is the lastIndex the
\* terminology patterns hold when it is called
UpgradePlan(f, opts, h, projectName, pkg, li) ==
    LET variables == getDefaultVariables(projectName)
        mods == PlanModifications(f, filesToUpdate, li)
        creates == PlanCreates(f, h, variables)
        links == ~opts.skipSymlinks /\ isSymlinkSupported(h)
        newPkg == pkg = "workspace-agents"
    IN [ends |-> CreatesLoopEnds(f, creates),
        li |-> mods.li,
        changes |->
          [EmptyChanges EXCEPT
            !.type = "upgrade",
            !.moves = PlanMoves(f),
            !.modifications = mods.mods,
            !.creates = creates,
            !.symlinks =
                IF ~links THEN <<>>
                ELSE IF newPkg
                    THEN SelectSeq(getManifest(h).symlinks,
                                   LAMBDA l : validateSymlink(f, l) = "missing")
                ELSE SelectSeq(getManifest(h).symlinks, LAMBDA l : ~Exists(f, l.link)),
            !.symlinkFixes =
                IF links /\ newPkg
                THEN SelectSeq(getManifest(h).symlinks,
                        LAMBDA l : validateSymlink(f, l) \in {"broken", "wrong_target"})
                ELSE <<>>,
            !.skillsToCopy =
                IF newPkg
                THEN SelectSeq(getManifest(h).skillsToCopy,
                        LAMBDA n : n \in DOMAIN BundledSkill /\ ~Exists(f, P_SKILLS \o <<n>>))
                ELSE <<>>,
            !.skillsToUpdate =
                IF newPkg
                THEN SelectSeq(getManifest(h).skillsToCopy,
                        LAMBDA n : n \in DOMAIN BundledSkill /\ Exists(f, P_SKILLS \o <<n>>))
                ELSE <<>>,
            !.newFiles =
                MapSeq(SelectSeq(analysisOf(f, h, pkg).missingFiles,
                                 LAMBDA d : ManifestFileFor(h, d) # <<>>),
                       LAMBDA d : FileCreate(d, ManifestFileFor(h, d)[1].template, variables)),
            !.legacy = PlanLegacy(f)]]

\* the operations of upgrade.apply(changes, projectRoot), in order
UpgradeOps(changes) ==
    MapSeq(changes.moves, OpMove)
    \o MapSeq(changes.modifications, OpModify)
    \o MapSeq(changes.creates, OpWriteFile)
    \o MapSeq(changes.newFiles, OpWriteFile)
    \o MapSeq(changes.symlinks, OpSymlink)
    \o MapSeq(changes.symlinkFixes, OpSymlink)
    \o (IF changes.skillsToCopy # <<>>
        THEN <<OpEnsureDir(P_SKILLS)>> \o MapSeq(changes.skillsToCopy, OpCopySkill)
        ELSE <<>>)
    \o MapSeq(changes.skillsToUpdate, OpUpdateSkill)
    \o MapSeq(changes.legacy, OpMove)

(***************************************************************************)
(* git-ops.  h.git is "none" outside a work tree, "tracked" when the       *)
(* project's files are under version control and "untracked" when not.     *)
(***************************************************************************)
isGitRepo(h) == h.git # "none"

\* the command `git mv from to` run in the project root
GitMvCommand(f, h, from, to) ==
    LET into == to \o <<Basename(from)>> IN
    IF h.git # "tracked" \/ ~Lstat(f, from) THEN Fail(f, "fatal: bad source")
    ELSE IF f[from].k = "dir" /\ ~\E q \in Under(f, from) : f[q].k # "dir"
        THEN Fail(f, "fatal: source directory is empty")
    ELSE IF IsPrefix(from, to) THEN Fail(f, "fatal: can not move directory into itself")
    ELSE IF IsDirectory(f, to)
        THEN IF Lstat(f, into) THEN Fail(f, "fatal: destination exists")
             ELSE Ok(RenameTree(f, from, into))
    ELSE IF Lstat(f, to) THEN Fail(f, "fatal: destination exists")
    ELSE IF ~IsDirectory(f, Dirname(to)) THEN Fail(f, "fatal: renaming failed")
    ELSE Ok(RenameTree(f, from, to))

Via(r, how) == [fs |-> r.fs, err |-> r.err, via |-> how]

\* gitMv with the primitive that did the move: "git mv", "fs move", or "none"
\* when it threw
gitMvTraced(f, h, from, to) ==
    LET made == EnsureDirSync(f, Dirname(to)) IN
    IF made.err # "none" THEN Via(made, "none")
    ELSE IF ~isGitRepo(h)
        THEN Bind(MoveSync(made.fs, from, to),
                  LAMBDA r : Via(r, IF r.err = "none" THEN "fs move" ELSE "none"))
    ELSE LET viaGit == GitMvCommand(made.fs, h, from, to)
             viaFs == MoveSync(made.fs, from, to)
         IN IF viaGit.err = "none" THEN Via(viaGit, "git mv")
            ELSE IF viaFs.err = "none" THEN Via(viaFs, "fs move")
            ELSE Via(Fail(made.fs, "Failed to move"), "none")

gitMv(f, h, from, to) ==
    Bind(gitMvTraced(f, h, from, to), LAMBDA r : [fs |-> r.fs, err |-> r.err])

(***************************************************************************)
(* apply: the operations of a change set run in order; the first one that  *)
(* throws ends the run, and what ran before it stays.                      *)
(***************************************************************************)
RECURSIVE ApplyTerminology(_, _)
ApplyTerminology(content, terms) ==
    IF terms = <<>> THEN content
    ELSE ApplyTerminology(JsReplaceAll(content, Head(terms).from, Head(terms).to),
                          Tail(terms))

NoWarn(r) == [fs |-> r.fs, err |-> r.err, warned |-> FALSE]

\* "Apply file modifications", one entry: read, replace every term, write;
\* `wrote` when writeFileSync was called and returned
applyModification(f, p) ==
    IF ~IsFile(f, p) THEN [fs |-> f, err |-> "ENOENT", wrote |-> FALSE]
    ELSE Bind(WriteFileSync(f, p, ApplyTerminology(ReadFile(f, p), MIGRATIONS.terminology)),
              LAMBDA w : [fs |-> w.fs, err |-> w.err, wrote |-> w.err = "none"])

\* one operation of apply on filesystem f
Exec(f, h, o) ==
    CASE o.op = "ensureDir" -> NoWarn(ensureDir(f, o.path))
      [] o.op = "writeFile" ->
            IF ~TemplateFound(o.template) THEN NoWarn(Fail(f, "Template not found"))
            ELSE NoWarn(writeFile(f, o.path, loadAndRender(o.template, o.variables), FALSE))
      [] o.op = "symlink" -> createSymlink(f, h, o.target, o.path, TRUE)
      [] o.op = "gitignore" -> NoWarn(appendGitignore(f, o.lines))
      [] o.op = "copyNewSkill" ->
            IF o.name \in DOMAIN BundledSkill /\ ~Exists(f, P_SKILLS \o <<o.name>>)
            THEN NoWarn(copyDir(f, o.name, P_SKILLS \o <<o.name>>))
            ELSE NoWarn(Ok(f))
      [] o.op = "copySkill" ->
            IF o.name \in DOMAIN BundledSkill
            THEN NoWarn(copyDir(f, o.name, P_SKILLS \o <<o.name>>))
            ELSE NoWarn(Ok(f))
      [] o.op = "updateSkill" ->
            IF o.name \in DOMAIN BundledSkill
            THEN NoWarn(copyDir(RemoveSync(f, P_SKILLS \o <<o.name>>), o.name,
                                P_SKILLS \o <<o.name>>))
            ELSE NoWarn(Ok(f))
      [] o.op = "move" ->
            LET made == ensureDir(f, Dirname(o.to)) IN
            IF made.err # "none" THEN NoWarn(made)
            ELSE IF isGitRepo(h) THEN NoWarn(gitMv(made.fs, h, o.path, o.to))
            ELSE NoWarn(MoveSync(made.fs, o.path, o.to))
      [] o.op = "modify" ->
            NoWarn(applyModification(f, o.path))

\* an apply that catches each operation's error and goes on
RECURSIVE RunOpsIsolated(_, _, _, _, _)
RunOpsIsolated(f, h, ops, done, warned) ==
    IF ops = <<>> THEN [fs |-> f, err |-> "none", done |-> done, warned |-> warned]
    ELSE Bind(Exec(f, h, Head(ops)), LAMBDA r :
         Bind(RunOpsIsolated(r.fs, h, Tail(ops),
                             IF r.err = "none" THEN done + 1 ELSE done,
                             warned \/ r.warned),
              LAMBDA rest : [rest EXCEPT !.err = IF r.err # "none" THEN r.err ELSE @]))

\* the run of ops from filesystem f: the filesystem it leaves, the error that
\* ended it ("none" when every operation ran), how many operations completed
\* and whether a symlink warning was printed
RECURSIVE RunOps(_, _, _, _, _)
RunOps(f, h, ops, done, warned) ==
    IF ops = <<>> THEN [fs |-> f, err |-> "none", done |-> done, warned |-> warned]
    ELSE Bind(Exec(f, h, Head(ops)), LAMBDA r :
            IF r.err # "none"
            THEN [fs |-> r.fs, err |-> r.err, done |-> done, warned |-> warned]
            ELSE RunOps(r.fs, h, Tail(ops), done + 1, warned \/ r.warned))

OpsOf(changes) ==
    IF changes.type = "scaffold" THEN ScaffoldOps(changes) ELSE UpgradeOps(changes)

(***************************************************************************)
(* prompts                                                                 *)
(***************************************************************************)
IsSpace(ch) == ch \in {" ", "\t", NL}

RECURSIVE TrimStart(_)
TrimStart(a) == IF a # <<>> /\ IsSpace(Head(a)) THEN TrimStart(Tail(a)) ELSE a
RECURSIVE TrimEnd(_)
TrimEnd(a) ==
    IF a # <<>> /\ IsSpace(a[Len(a)]) THEN TrimEnd(SubSeq(a, 1, Len(a) - 1)) ELSE a
Trim(a) == TrimEnd(TrimStart(a))

LowerOf(ch) ==
    CASE ch = "Y" -> "y" [] ch = "E" -> "e" [] ch = "S" -> "s" [] ch = "N" -> "n"
      [] OTHER -> ch
ToLowerCase(a) == [i \in 1..Len(a) |-> LowerOf(a[i])]

\* a confirm whose default is yes
confirmDefaultYes(answer) ==
    LET normalized == ToLowerCase(Trim(answer)) IN
    IF normalized = <<>> THEN TRUE
    ELSE normalized = <<"y">> \/ normalized = <<"y", "e", "s">>

\* confirm(message, defaultValue = false) given the line the user typed
confirm(answer) ==
    LET normalized == ToLowerCase(Trim(answer)) IN
    IF normalized = <<>> THEN FALSE
    ELSE normalized = <<"y">> \/ normalized = <<"y", "e", "s">>

\* the lines a user may type at the prompt
Answers == {<<"y">>, <<" ", "Y", "E", "S", " ">>, <<>>, <<" ">>, <<"n">>, <<"y", "e", "p">>}

(***************************************************************************)
(* The hosts and the project roots the runs start from.                    *)
(***************************************************************************)
Hosts ==
    {[win32 |-> FALSE, probe |-> TRUE, symlink |-> "ok", git |-> "none", manifest |-> "full"],
     [win32 |-> FALSE, probe |-> TRUE, symlink |-> "ok", git |-> "tracked", manifest |-> "full"],
     [win32 |-> FALSE, probe |-> TRUE, symlink |-> "ok", git |-> "none", manifest |-> "plain"],
     [win32 |-> FALSE, probe |-> TRUE, symlink |-> "ok", git |-> "tracked", manifest |-> "plain"],
     [win32 |-> FALSE, probe |-> TRUE, symlink |-> "ok", git |-> "untracked", manifest |-> "plain"],
     [win32 |-> FALSE, probe |-> TRUE, symlink |-> "EACCES", git |-> "none", manifest |-> "plain"],
     [win32 |-> TRUE, probe |-> FALSE, symlink |-> "EPERM", git |-> "none", manifest |-> "plain"],
     [win32 |-> TRUE, probe |-> TRUE, symlink |-> "EPERM", git |-> "none", manifest |-> "full"]}

ProjectNames == {<<"demo">>, <<"a", "$", "&", "b">>}

EmptyRoot == [q \in {} |-> Dir]

\* f with node n at path p, its parent directories made
With(f, p, n) == Put(EnsureDirSync(f, Dirname(p)).fs, p, n)

RECURSIVE WithAll(_, _)
WithAll(f, entries) ==
    IF entries = <<>> THEN f
    ELSE WithAll(With(f, Head(entries).p, Head(entries).n), Tail(entries))

\* the layout the framework had before the rename of tools to skills
OldRoot ==
    WithAll(EmptyRoot, <<
        [p |-> P_AGENTS_MD, n |-> File(<<"See", "agents", "/", "tools", "/">>)],
        [p |-> P_AGENTS_README,
         n |-> File(<<"agents", "/", "tools", NL, BQ, "tools", "/", BQ, "plans-local">>)],
        [p |-> P_TOOLS \o <<"README.md">>, n |-> File(<<"in", "agents", "/", "tools", "/">>)],
        [p |-> P_OLD_PLANS_LOCAL \o <<"plan.md">>, n |-> File(<<"plan">>)]>>)

\* a framework directory that lacks the current subdirectories
PartialRoot ==
    WithAll(EmptyRoot, <<
        [p |-> P_AGENTS_MD, n |-> File(<<"mine">>)],
        [p |-> P_AGENTS, n |-> Dir]>>)

BaseRoots == {EmptyRoot, OldRoot, PartialRoot}

\* what a project may hold besides: each a list of entries
Extras ==
    {<<[p |-> P_CLAUDE_MD, n |-> File(<<"mine">>)]>>,
     <<[p |-> P_AGENTS_MD, n |-> File(<<"tools", "/", "x", "agents", "/", "tools">>)]>>,
     <<[p |-> P_README, n |-> File(<<"agents", "/", "tools">>)]>>,
     <<[p |-> P_GITIGNORE, n |-> File(<<"node_modules">>)]>>,
     <<[p |-> P_SKILL_LINK, n |-> Link(SkillTarget)]>>,
     <<[p |-> P_SKILL_LINK, n |-> Link([up |-> 2, down |-> P_AGENTS])]>>,
     <<[p |-> P_SKILL_LINK, n |-> File(<<"mine">>)]>>,
     <<[p |-> P_CLAUDE_SKILLS, n |-> Dir]>>,
     <<[p |-> <<".claude">>, n |-> File(<<"mine">>)]>>,
     <<[p |-> P_TASKS \o <<"t.md">>, n |-> File(<<"task">>)]>>,
     <<[p |-> P_SKILLS, n |-> Dir]>>,
     <<[p |-> P_SKILL \o <<"SKILL.md">>, n |-> File(<<"skill-creator", "mine">>)]>>,
     <<[p |-> <<"CONTRIBUTING.md">>, n |-> File(<<"use", "plans-local">>)]>>,
     <<[p |-> <<"CONTRIBUTING.md">>, n |-> File(<<"how", "to", "contribute">>)]>>,
     <<[p |-> <<"DEVELOPMENT.md">>, n |-> File(<<"in", "agents", "/", "tools">>)]>>,
     <<[p |-> <<"CONTRIBUTING.md">>, n |-> File(<<"use", "plans-local">>)],
       [p |-> P_LEGACY \o <<"CONTRIBUTING.md">>, n |-> File(<<"old">>)]>>,
     <<[p |-> P_AGENTS_MD, n |-> File(<<"See", "agents", "/", "tools">>)],
       [p |-> P_README, n |-> File(<<"agents", "/", "tools">>)]>>}

\* an entry can join f when nothing of f lies at or under its path and no
\* file of f lies above it
Fits(f, e) ==
    /\ Under(f, e.p) = {}
    /\ \A q \in Prefixes(Dirname(e.p)) : Lstat(f, q) => f[q].k = "dir"

RECURSIVE FitsAll(_, _)
FitsAll(f, es) ==
    es = <<>> \/ (Fits(f, Head(es)) /\ FitsAll(With(f, Head(es).p, Head(es).n), Tail(es)))

RECURSIVE Roots(_)
Roots(n) ==
    IF n = 0 THEN BaseRoots
    ELSE Roots(n - 1) \cup
         {WithAll(x[1], x[2]) : x \in {y \in Roots(n - 1) \X Extras : FitsAll(y[1], y[2])}}

Options == [force : BOOLEAN, skipSymlinks : BOOLEAN, yes : BOOLEAN]

(***************************************************************************)
(* The init command and the library calls of a test (plan, apply, and      *)
(* again).  pc is the position of the run:                                 *)
(*   "start"   init is about to call determineAction                       *)
(*   "plan"    scaffold.plan or upgrade.plan is about to be called         *)
(*   "show"    the plan is returned; printChanges is next                  *)
(*   "confirm" the prompt is open                                          *)
(*   "apply"   scaffold.apply or upgrade.apply is about to be called       *)
(*   "applied" a library apply returned or threw                           *)
(*   "done"    init returned or exited                                     *)
(*   "hung"    upgrade.plan is in its creates loop for good                *)
(***************************************************************************)
\* hist is what the run has done so far: the filesystem at the start (fs0), at
\* the start of this invocation of init (fsRun), when the last plan was called
\* (fsPlan) and when the last apply was called (fsBefore); whether the plan was
\* printed and the prompt confirmed in this invocation; the line just typed;
\* the calls made, how each apply ended, and what some other process did to
\* the tree between plan and apply
NoAnswer == <<"-">>
NoRace == [kind |-> "none", p |-> <<>>]
NoHist(f) ==
    [fs0 |-> f, fsRun |-> f, fsPlan |-> f, fsBefore |-> f, printed |-> FALSE,
     confirmed |-> FALSE, answer |-> NoAnswer, steps |-> <<>>, errs |-> <<>>,
     race |-> NoRace]

NewRun(mode, kind, pkg, opts, name) ==
    [mode |-> mode, kind |-> kind, pkg |-> pkg, opts |-> opts, name |-> name,
     round |-> 1, changes |-> EmptyChanges, li |-> FreshLastIndex,
     err |-> "none", done |-> 0, warned |-> FALSE, exit |-> -1, layout |-> ""]

\* the ways a run starts: the command, or a library used directly
Entries ==
    {<<"cli", "none", "workspace-agents">>,
     <<"lib", "scaffold", "workspace-agents">>,
     <<"lib", "upgrade", "workspace-agents">>,
     <<"lib", "upgrade", "context-forge">>}

DefaultHost ==
    [win32 |-> FALSE, probe |-> TRUE, symlink |-> "ok", git |-> "none", manifest |-> "full"]

\* the runs checked: only init.js reads options.yes, only scaffold reads
\* options.force, only upgrade.apply asks git; the command is run on half of
\* the hosts and the project name with `$` is used on one
Setups ==
    {s \in [entry : Entries, opts : Options, host : Hosts, name : ProjectNames] :
        /\ s.entry[1] = "lib" => ~s.opts.yes
        /\ s.entry[2] = "upgrade" => ~s.opts.force
        /\ s.entry[2] = "scaffold" => s.host.git = "none"
        /\ s.entry[1] = "cli" => s.host.manifest = "full" \/ s.host.symlink = "EACCES"
        /\ s.name # <<"demo">> => s.host = DefaultHost}

InitMain ==
    /\ fs \in Roots(MaxExtras)
    /\ \E s \in Setups :
        /\ host = s.host
        /\ run = NewRun(s.entry[1], s.entry[2], s.entry[3], s.opts, s.name)
        /\ pc = IF s.entry[1] = "cli" THEN "start" ELSE "plan"
    /\ hist = NoHist(fs)
    /\ txt = <<>>

\* init.js: determineAction and the early return on "none"
Detect ==
    /\ pc = "start"
    /\ LET action == determineAction(fs, host, run.pkg) IN
        /\ run' = [run EXCEPT !.kind = action,
                              !.layout = classifyLayout(fs, host, run.pkg),
                              !.exit = IF action = "none" THEN 0 ELSE -1]
        /\ pc' = IF action = "none" THEN "done" ELSE "plan"
    /\ hist' = [hist EXCEPT !.steps = @ \o <<"detect">>]
    /\ UNCHANGED <<fs, host, txt>>

PlanOf(f, r, h) ==
    IF r.kind = "scaffold"
    THEN [ends |-> TRUE, li |-> r.li, changes |-> ScaffoldPlan(f, r.opts, h, r.name)]
    ELSE UpgradePlan(f, r.opts, h, r.name, r.pkg, r.li)

\* a plan that makes the directories it lists
PlanMakingDirs ==
    /\ pc = "plan"
    /\ LET p == PlanOf(fs, run, host) IN
        /\ run' = [run EXCEPT !.changes = p.changes, !.li = p.li]
        /\ pc' = IF run.mode = "cli" THEN "show" ELSE "apply"
        /\ fs' = RunOps(fs, host, MapSeq(p.changes.directories, OpEnsureDir), 0, FALSE).fs
    /\ hist' = [hist EXCEPT !.fsPlan = fs, !.steps = @ \o <<"plan">>]
    /\ UNCHANGED <<host, txt>>

\* scaffold.plan / upgrade.plan
Plan ==
    /\ pc = "plan"
    /\ LET p == PlanOf(fs, run, host) IN
        /\ run' = [run EXCEPT !.changes = IF p.ends THEN p.changes ELSE @,
                              !.li = p.li]
        /\ pc' = IF ~p.ends THEN "hung"
                 ELSE IF run.mode = "cli" THEN "show" ELSE "apply"
    /\ hist' = [hist EXCEPT !.fsPlan = fs, !.steps = @ \o <<"plan">>]
    /\ UNCHANGED <<fs, host, txt>>

NothingToDo(c) ==
    \/ c.type = "none"
    \/ /\ c.directories = <<>> /\ c.files = <<>> /\ c.symlinks = <<>>
       /\ c.moves = <<>> /\ c.modifications = <<>> /\ c.creates = <<>>
       /\ c.newFiles = <<>> /\ c.skillsToCopy = <<>> /\ c.skillsToUpdate = <<>>
       /\ c.symlinkFixes = <<>> /\ c.legacy = <<>>

\* init.js: printChanges, the "nothing to do" return, and --yes
Show ==
    /\ pc = "show"
    /\ hist' = [hist EXCEPT !.printed = TRUE, !.steps = @ \o <<"show">>]
    /\ pc' = IF NothingToDo(run.changes) THEN "done"
             ELSE IF run.opts.yes THEN "apply" ELSE "confirm"
    /\ run' = [run EXCEPT !.exit = IF NothingToDo(run.changes) THEN 0 ELSE @]
    /\ UNCHANGED <<fs, host, txt>>

\* init.js: the prompt and the return on anything but y or yes
Confirm ==
    /\ pc = "confirm"
    /\ \E a \in Answers :
        /\ hist' = [hist EXCEPT !.confirmed = confirm(a), !.answer = a,
                                !.steps = @ \o <<"confirm">>]
        /\ pc' = IF confirm(a) THEN "apply" ELSE "done"
        /\ run' = [run EXCEPT !.exit = IF confirm(a) THEN @ ELSE 0]
    /\ UNCHANGED <<fs, host, txt>>

\* scaffold.apply / upgrade.apply; in init.js, inside the try whose catch exits 1
Apply ==
    /\ pc = "apply"
    /\ LET r == RunOps(fs, host, OpsOf(run.changes), 0, FALSE) IN
        /\ fs' = r.fs
        /\ run' = [run EXCEPT
                    !.err = r.err, !.done = r.done, !.warned = r.warned,
                    !.li = IF run.kind = "upgrade" /\ r.done > Len(run.changes.moves)
                              /\ run.changes.modifications # <<>>
                           THEN FreshLastIndex ELSE @,
                    !.exit = IF run.mode = "lib" THEN @
                             ELSE IF r.err = "none" THEN 0 ELSE 1]
        /\ hist' = [hist EXCEPT !.fsBefore = fs, !.steps = @ \o <<"apply">>,
                                !.errs = @ \o <<r.err>>, !.answer = NoAnswer]
    /\ pc' = IF run.mode = "cli" THEN "done" ELSE "applied"
    /\ UNCHANGED <<host, txt>>

\* a test applies the change set it holds once more
Reapply ==
    /\ pc = "applied" /\ run.round < MaxRounds
    /\ run' = [run EXCEPT !.round = @ + 1]
    /\ pc' = "apply"
    /\ UNCHANGED <<fs, hist, host, txt>>

\* a test plans again with the same options
Replan ==
    /\ pc = "applied" /\ run.round < MaxRounds
    /\ run' = [run EXCEPT !.round = @ + 1]
    /\ pc' = "plan"
    /\ UNCHANGED <<fs, hist, host, txt>>

\* the user runs init again: a new process
Rerun ==
    /\ pc = "done" /\ run.mode = "cli" /\ run.round < MaxRounds
    /\ run' = [NewRun("cli", "none", run.pkg, run.opts, run.name) EXCEPT
                !.round = run.round + 1]
    /\ hist' = [hist EXCEPT !.printed = FALSE, !.confirmed = FALSE,
                            !.answer = NoAnswer, !.fsRun = fs]
    /\ pc' = "start"
    /\ UNCHANGED <<fs, host, txt>>

NextMain == Detect \/ Plan \/ Show \/ Confirm \/ Apply \/ Reapply \/ Replan \/ Rerun

Spec == InitMain /\ [][NextMain]_vars

(***************************************************************************)
(* The same runs with another process at work in the project between plan  *)
(* and apply: it acts once, on a path the change set names.                *)
(***************************************************************************)
SeqRange(q) == {q[i] : i \in 1..Len(q)}

RaceEvents(c) ==
    {[kind |-> "remove", p |-> m.from] : m \in SeqRange(c.moves \o c.legacy)}
    \cup {[kind |-> "mkdir", p |-> m.to] : m \in SeqRange(c.moves)}
    \cup {[kind |-> "create", p |-> e.path] :
            e \in {x \in SeqRange(c.files \o c.creates \o c.newFiles) : x.action = "create"}}
    \cup {[kind |-> "ignore", p |-> P_GITIGNORE] : l \in SeqRange(c.gitignore)}

RaceEffect(f, c, e) ==
    CASE e.kind = "remove" -> RemoveSync(f, e.p)
      [] e.kind = "mkdir" -> EnsureDirSync(f, e.p).fs
      [] e.kind = "create" -> writeFile(f, e.p, <<"theirs">>, TRUE).fs
      [] e.kind = "ignore" -> appendFile(f, e.p, c.gitignore[1] \o <<NL>>).fs

Interfere ==
    /\ pc = "apply" /\ hist.race = NoRace
    /\ \E e \in RaceEvents(run.changes) :
        /\ fs' = RaceEffect(fs, run.changes, e)
        /\ hist' = [hist EXCEPT !.race = e]
    /\ UNCHANGED <<pc, run, host, txt>>

RaceHosts == {h \in Hosts : h.git # "untracked" /\ (h.manifest = "plain" <=> ~h.win32)}

RaceSetups ==
    {s \in [entry : Entries, opts : Options, host : RaceHosts, name : {<<"demo">>}] :
        /\ s.entry[1] = "lib" => ~s.opts.yes
        /\ s.entry[2] = "upgrade" => ~s.opts.force
        /\ s.entry[2] = "scaffold" => s.host.git = "none"
        /\ ~s.opts.skipSymlinks}

InitRace ==
    /\ fs \in Roots(MaxExtras)
    /\ \E s \in RaceSetups :
        /\ host = s.host
        /\ run = NewRun(s.entry[1], s.entry[2], s.entry[3], s.opts, s.name)
        /\ pc = IF s.entry[1] = "cli" THEN "start" ELSE "plan"
    /\ hist = NoHist(fs)
    /\ txt = <<>>

NextRace == NextMain \/ Interfere

SpecRace == InitRace /\ [][NextRace]_vars

(***************************************************************************)
(* Properties of scaffold and of the init command                          *)
(***************************************************************************)
LastStep == IF hist.steps = <<>> THEN "" ELSE hist.steps[Len(hist.steps)]
LibScaffold == run.mode = "lib" /\ run.kind = "scaffold"
FromEmptyRoot == hist.fs0 = EmptyRoot

\* C1: from an empty root, after scaffold plan and apply (which completed
\* without error or warning), the second plan holds no operation to perform
\* and the second apply leaves the filesystem as it was.
C1_SecondPlanEmpty ==
    (LibScaffold /\ FromEmptyRoot
        /\ hist.steps \in {<<"plan", "apply", "plan">>, <<"plan", "apply", "plan", "apply">>}
        /\ hist.errs[1] = "none" /\ ~run.warned)
    => /\ OpsOf(run.changes) = <<>>
       /\ LastStep = "apply" => fs = hist.fsBefore

\* the part of C1 the code does meet: the second apply changes nothing
C1_SecondApplyNoOp ==
    (LibScaffold /\ FromEmptyRoot /\ hist.steps = <<"plan", "apply", "plan", "apply">>
        /\ hist.errs[1] = "none")
    => fs = hist.fsBefore

Planned == LastStep \in {"plan", "show", "confirm", "apply"} /\ pc # "hung"
Applied == LastStep = "apply"
NoFrameworkAtPlan == ~detectExistingFramework(hist.fsPlan)
Rendered(file) == loadAndRender(file.template, getDefaultVariables(run.name))
ManifestFiles == {getManifest(host).files[i] : i \in 1..Len(getManifest(host).files)}
ManifestDirs == {getManifest(host).directories[i] : i \in 1..Len(getManifest(host).directories)}

C3_PlanWritesNothing == LastStep = "plan" => fs = hist.fsPlan

C3_Witness ==
    /\ LastStep = "plan" /\ run.kind = "upgrade" /\ pc # "hung"
    /\ run.changes.moves # <<>> /\ run.changes.modifications # <<>>
    /\ fs = hist.fsPlan

\* C4: without force, scaffold plans 'skip' for every manifest file whose
\* destination exists at plan time, and after apply that file is as it was.
C4_NoOverwriteWithoutForce ==
    (run.kind = "scaffold" /\ ~run.opts.force /\ Planned)
    => \A i \in 1..Len(getManifest(host).files) :
        LET dest == getManifest(host).files[i].dest IN
        Exists(hist.fsPlan, dest)
        => /\ run.changes.files[i].action = "skip"
           /\ run.changes.files[i].path = dest
           /\ Applied => /\ Lstat(fs, dest)
                         /\ fs[dest] = hist.fsPlan[dest]

C4_Witness ==
    /\ run.kind = "scaffold" /\ ~run.opts.force /\ Applied /\ run.err = "none"
    /\ Exists(hist.fsPlan, P_CLAUDE_MD)
    /\ run.changes.files[2].action = "skip"
    /\ ReadFile(fs, P_CLAUDE_MD) = <<"mine">>
    /\ ReadFile(fs, P_AGENTS_MD) # ReadFile(fs, P_CLAUDE_MD)

YesLike(a) == ToLowerCase(Trim(a)) \in {<<"y">>, <<"y", "e", "s">>}
Go == run.opts.yes \/ hist.confirmed

\* C5: init changes the filesystem, and reaches apply, only once the plan is
\* printed and the user confirmed or --yes was given; after any answer other
\* than y or yes (the empty one too) init has returned and the filesystem is
\* as the invocation found it.
C5_ConfirmBeforeMutation ==
    run.mode = "cli"
    => /\ fs # hist.fsRun => hist.printed /\ Go
       /\ pc = "apply" => hist.printed /\ Go
       /\ (pc = "done" /\ LastStep = "apply") => hist.printed /\ Go
       /\ (hist.answer # NoAnswer /\ ~YesLike(hist.answer))
            => pc = "done" /\ fs = hist.fsRun /\ run.exit = 0
       /\ (hist.answer # NoAnswer /\ YesLike(hist.answer)) => pc = "apply"

C5_Witness ==
    /\ run.mode = "cli" /\ ~run.opts.yes /\ hist.printed
    /\ hist.answer = <<>> /\ pc = "done"
    /\ ~NothingToDo(run.changes) /\ run.changes.type = "scaffold"
    /\ fs = hist.fsRun

AfterApply == LastStep = "apply" /\ pc \in {"done", "applied"}
AppliedOps == OpsOf(run.changes)

Reapplied ==
    /\ run.mode = "lib" /\ AfterApply /\ Len(hist.steps) >= 3
    /\ hist.steps[Len(hist.steps) - 1] = "apply"
HasMove(c) == c.moves # <<>> \/ c.legacy # <<>>

Idle == NewRun("lib", "none", "workspace-agents",
               [force |-> FALSE, skipSymlinks |-> FALSE, yes |-> FALSE], <<"demo">>)

\* what a template body is made of
Pieces ==
    {Placeholder("A"), Placeholder("B"), Placeholder("U"), <<"x">>, <<"{", "{", "A">>}

RECURSIVE Bodies(_)
Bodies(n) ==
    IF n = 0 THEN {<<>>}
    ELSE Bodies(n - 1) \cup {b \o p : <<b, p>> \in Bodies(n - 1) \X Pieces}

\* the values a variable may have: plain, with the characters `$&` and `$$`,
\* and with the text of a placeholder
Values == {<<"v">>, <<"a", "$", "&">>, <<"$", "$">>, Placeholder("B")}

\* variable maps over the keys A and B, in the order Object.entries lists them
VariableMaps ==
    {<<>>}
    \cup {<<[key |-> k, value |-> v]>> : <<k, v>> \in {"A", "B"} \X Values}
    \cup {<<[key |-> ks[1], value |-> v[1]], [key |-> ks[2], value |-> v[2]]>> :
            <<ks, v>> \in {<<"A", "B">>, <<"B", "A">>} \X (Values \X Values)}

InitRender ==
    /\ txt \in [content : Bodies(MaxPieces), variables : VariableMaps, out : {<<>>}]
    /\ pc = "render"
    /\ fs = EmptyRoot /\ host = DefaultHost /\ run = Idle /\ hist = NoHist(EmptyRoot)

Render ==
    /\ pc = "render"
    /\ txt' = [txt EXCEPT !.out = renderTemplate(txt.content, txt.variables)]
    /\ pc' = "rendered"
    /\ UNCHANGED <<fs, host, run, hist>>

SpecRender == InitRender /\ [][Render]_vars

KeysOf(variables) == {variables[i].key : i \in 1..Len(variables)}
ValueOf(variables, k) == (CHOOSE i \in 1..Len(variables) : variables[i].key = k)
PlaceholderKeyAt(s, i) ==
    IF \E k \in {"A", "B", "U"} : MatchAt(s, Placeholder(k), i)
    THEN CHOOSE k \in {"A", "B", "U"} : MatchAt(s, Placeholder(k), i)
    ELSE ""

\* the template with each {{KEY}} of the map replaced by the map's value, in
\* one pass, everything else kept
RECURSIVE Substituted(_, _, _)
Substituted(s, variables, i) ==
    IF i > Len(s) THEN <<>>
    ELSE IF PlaceholderKeyAt(s, i) \in KeysOf(variables)
        THEN variables[ValueOf(variables, PlaceholderKeyAt(s, i))].value
                \o Substituted(s, variables, i + 5)
    ELSE <<s[i]>> \o Substituted(s, variables, i + 1)

PlainValues(variables) ==
    \A i \in 1..Len(variables) : ~Includes(variables[i].value, <<"{">>)

\* C9 as stated, for maps whose values hold no brace: every {{KEY}} with KEY
\* in the map is replaced by the map's value, no {{KEY}} of the map is left,
\* and every {{KEY}} with KEY absent from the map is kept.
C9_RenderReplacesByValue ==
    (pc = "rendered" /\ PlainValues(txt.variables))
    => /\ txt.out = Substituted(txt.content, txt.variables, 1)
       /\ \A k \in KeysOf(txt.variables) : ~Includes(txt.out, Placeholder(k))

\* the part of C9 the code meets: with values free of `$` and braces
C9_RenderPlain ==
    (pc = "rendered" /\ PlainValues(txt.variables)
        /\ \A i \in 1..Len(txt.variables) : ~Includes(txt.variables[i].value, <<"$">>))
    => /\ txt.out = Substituted(txt.content, txt.variables, 1)
       /\ \A k \in KeysOf(txt.variables) : ~Includes(txt.out, Placeholder(k))

(***************************************************************************)
(* The .gitignore: planned by scaffold.plan, appended by appendGitignore,  *)
(* with another process adding a planned line in between                   *)
(***************************************************************************)
\* lines are sequences of characters; "a" is part of "ab"
IgnoreLines == {<<"a">>, <<"a", "b">>, <<"c">>}

RECURSIVE LineLists(_)
LineLists(n) ==
    IF n = 0 THEN {<<>>}
    ELSE LineLists(n - 1)
         \cup {ls \o <<l>> : <<ls, l>> \in
                {x \in LineLists(n - 1) \X IgnoreLines : x[2] \notin SeqRange(x[1])}}

\* the project before: without .gitignore, or with one of these contents
IgnoreFiles ==
    {<<>>, <<"x">>, <<"a", NL>>, <<"a", "b", NL, "x">>, <<"c", NL, "c", NL>>,
     <<"# Workspace Agents", NL, "c", NL>>}
IgnoreRoots == {EmptyRoot} \cup {With(EmptyRoot, P_GITIGNORE, File(c)) : c \in IgnoreFiles}

Content(f) == IF Exists(f, P_GITIGNORE) THEN ReadFile(f, P_GITIGNORE) ELSE <<>>

InitIgnore ==
    /\ fs \in IgnoreRoots
    /\ \E ls \in LineLists(MaxIgnoreLines) :
        txt = [lines |-> ls, planned |-> <<>>, orig |-> Content(fs), before |-> <<>>,
               applies |-> 0, added |-> <<>>, last |-> ""]
    /\ pc = "ignore-plan"
    /\ host = DefaultHost /\ run = Idle /\ hist = NoHist(fs)

\* scaffold.plan's gitignore block
IgnorePlan ==
    /\ pc = "ignore-plan"
    /\ txt' = [txt EXCEPT !.planned = PlanGitignore(fs, txt.lines), !.last = "plan"]
    /\ pc' = "ignore-apply"
    /\ UNCHANGED <<fs, host, run, hist>>

\* another process appends a planned line before apply runs
IgnoreExternal ==
    /\ pc = "ignore-apply" /\ txt.applies = 0 /\ txt.added = <<>>
    /\ \E l \in SeqRange(txt.planned) :
        /\ fs' = appendFile(fs, P_GITIGNORE, l \o <<NL>>).fs
        /\ txt' = [txt EXCEPT !.added = l, !.last = "external"]
    /\ UNCHANGED <<pc, host, run, hist>>

\* scaffold.apply's call of appendGitignore with the planned lines
IgnoreApply ==
    /\ pc = "ignore-apply" /\ txt.applies < MaxRounds
    /\ txt.planned # <<>>
    /\ fs' = appendGitignore(fs, txt.planned).fs
    /\ txt' = [txt EXCEPT !.before = Content(fs), !.applies = @ + 1, !.last = "apply"]
    /\ UNCHANGED <<pc, host, run, hist>>

NextIgnore == IgnorePlan \/ IgnoreExternal \/ IgnoreApply

SpecIgnore == InitIgnore /\ [][NextIgnore]_vars

\* how often l stands in s as a whole line
LineCount(s, l) ==
    Cardinality({i \in 1..Len(s) :
        /\ MatchAt(s, l, i)
        /\ i = 1 \/ s[i - 1] = NL
        /\ i + Len(l) > Len(s) \/ s[i + Len(l)] = NL})

\* C10: after appendGitignore ran, what .gitignore held before the call, and
\* before the run, is still its beginning; no line of the set stands in it
\* twice unless it did before the run, also when another process added a
\* planned line between plan and apply; and a second call with the same lines
\* leaves the file as the first left it.
C10_GitignoreAppend ==
    txt.applies > 0
    => /\ IsPrefix(txt.orig, Content(fs))
       /\ IsPrefix(txt.before, Content(fs))
       /\ \A l \in SeqRange(txt.lines) :
            /\ Includes(Content(fs), l)
            /\ LineCount(Content(fs), l) <= IF LineCount(txt.orig, l) > 1
                                            THEN LineCount(txt.orig, l) ELSE 1
       /\ txt.applies > 1 => Content(fs) = txt.before

C10_Witness ==
    /\ txt.applies = 2 /\ txt.orig = <<"x">> /\ txt.added = <<"a", "b">>
    /\ txt.planned = <<<<"a", "b">>, <<"c">>>>
    /\ Content(fs) = <<"x", "a", "b", NL, "# Workspace Agents", NL, "c", NL>>

(***************************************************************************)
(* The upgrade-workflow skill: detect-structure.js, migrate-files.js,      *)
(* update-references.js, and the steps of scripts/upgrade.js that call     *)
(* them.  Text is a sequence of words and single punctuation characters.   *)
(***************************************************************************)
P_OLD_TASKS == <<"agents", "tasks">>
P_AGENTS_PLANS_LOCAL == <<"agents", "plans-local">>
P_OLD_TASKS_MD == <<"agents", "tasks", "tasks.md">>
P_TASKS_MD == <<"agents", "plans", "tasks.md">>
P_TOOL_PATTERNS == <<"agents", "reference", "tool-patterns.md">>
P_SKILL_PATTERNS == <<"agents", "reference", "skill-patterns.md">>
P_CLAIM_TASK == <<"agents", "tools", "git", "scripts", "claim-task.js">>

\* the characters \w of a regular expression make up these tokens
Words ==
    {"agents", "tools", "tool", "tasks", "plans", "local", "skills", "reference",
     "patterns", "md", "directory", "Tools", "Skills", "git", "see", "x"}
IsWord(t) == t \in Words

pathExists(f, relativePath) == Exists(f, relativePath)

\* glob.sync('**/*.md') with its ignore list; a dot directory is not matched
MdNames == {"README.md", "tasks.md", "CLAUDE.md", "AGENTS.md", "notes.md",
            "tool-patterns.md"}
DotNames == {".claude", ".git", ".gitignore", ".cursor", ".github"}
mdFiles(f) ==
    {q \in DOMAIN f :
        /\ f[q].k = "file"
        /\ Basename(q) \in MdNames
        /\ \A i \in 1..Len(q) : q[i] \notin DotNames \cup {"node_modules"}
        /\ ~(IsPrefix(P_PLANS_LOCAL, q) /\ q # P_PLANS_LOCAL)}

T_TOOLS == <<"agents", "/", "tools", "/">>
T_TASKS == <<"agents", "/", "tasks", "/">>
T_PLANS_LOCAL == <<"agents", "/", "plans", "-", "local", "/">>

hasOldReferences(content) ==
    \/ Includes(content, T_TOOLS)
    \/ Includes(content, T_TASKS)
    \/ Includes(content, T_PLANS_LOCAL)
    \/ \E i \in 1..Len(content) : content[i] \in {"tool", "tools"}

oldDirPatterns ==
    <<[from |-> P_TOOLS, to |-> P_SKILLS, type |-> "directory"],
      [from |-> P_OLD_TASKS, to |-> P_PLANS, type |-> "directory"],
      [from |-> P_AGENTS_PLANS_LOCAL, to |-> P_PLANS_LOCAL, type |-> "directory"]>>
fileMigrations ==
    <<[from |-> P_OLD_TASKS_MD, to |-> P_TASKS_MD, type |-> "file"],
      [from |-> P_TOOL_PATTERNS, to |-> P_SKILL_PATTERNS, type |-> "file"]>>

G_NEW == <<"agents", "/", "plans", "/", "local", "/", "*">>
G_OLD == T_PLANS_LOCAL \o <<"*">>
G_KEEP_OLD == <<"!">> \o T_PLANS_LOCAL \o <<".gitkeep">>
G_KEEP_NEW == <<"!", "agents", "/", "plans", "/", "local", "/", ".gitkeep">>

detectStructure(f) ==
    LET migrations ==
            SelectSeq(oldDirPatterns, LAMBDA m : pathExists(f, m.from))
            \o SelectSeq(fileMigrations, LAMBDA m : pathExists(f, m.from))
        fileUpdates == {q \in mdFiles(f) : hasOldReferences(f[q].c)}
        legacyFiles == IF pathExists(f, P_CLAIM_TASK) THEN <<P_CLAIM_TASK>> ELSE <<>>
        newAdditions ==
            (IF ~pathExists(f, P_CLAUDE_SKILLS) THEN 1 ELSE 0)
            + (IF ~pathExists(f, P_CLAUDE_README) THEN 1 ELSE 0)
            + (IF Exists(f, P_GITIGNORE) /\ ~Includes(ReadFile(f, P_GITIGNORE), G_NEW)
               THEN 1 ELSE 0)
    IN [migrations |-> migrations, fileUpdates |-> fileUpdates,
        legacyFiles |-> legacyFiles, newAdditions |-> newAdditions,
        totalChanges |-> Len(migrations) + Cardinality(fileUpdates)
                         + Len(legacyFiles) + newAdditions]

\* migrate-files.js
gitMove(f, h, from, to) ==
    LET made == EnsureDirSync(f, Dirname(to)) IN
    IF made.err # "none" THEN made ELSE GitMvCommand(made.fs, h, from, to)

regularMove(f, from, to) ==
    LET made == EnsureDirSync(f, Dirname(to)) IN
    IF made.err # "none" THEN made ELSE MoveSync(made.fs, from, to)

Successful(m, method) == <<[from |-> m.from, to |-> m.to, method |-> method]>>
Failed(m, reason) == <<[from |-> m.from, to |-> m.to, reason |-> reason]>>
Migrated(f, successful, failed) == [fs |-> f, successful |-> successful, failed |-> failed]

\* the move of one migration, by git mv or, outside git and when git mv
\* failed, by regularMove; a throw of regularMove is caught
moveEntry(f, h, m) ==
    LET viaGit == IF isGitRepo(h) THEN gitMove(f, h, m.from, m.to)
                  ELSE Fail(f, "no git")
    IN IF viaGit.err = "none" THEN Migrated(viaGit.fs, Successful(m, "git mv"), <<>>)
       ELSE LET viaFs == regularMove(viaGit.fs, m.from, m.to)
            IN IF viaFs.err = "none"
               THEN Migrated(viaFs.fs, Successful(m, "fs move"), <<>>)
               ELSE Migrated(viaFs.fs, <<>>, Failed(m, viaFs.err))

\* a turn of the loop without the check of the destination
migrateEntryAnyDest(f, h, m) ==
    IF ~Exists(f, m.from) THEN Migrated(f, <<>>, <<>>) ELSE moveEntry(f, h, m)

\* one turn of the loop over analysis.migrations: what it adds to
\* results.successful and results.failed
migrateEntry(f, h, m) ==
    IF ~Exists(f, m.from) THEN Migrated(f, <<>>, <<>>)
    ELSE IF Exists(f, m.to) THEN Migrated(f, <<>>, Failed(m, "destination exists"))
    ELSE moveEntry(f, h, m)

\* the turn, by its outcome
migrateOne(f, h, m) ==
    Bind(migrateEntry(f, h, m), LAMBDA r :
        [fs |-> r.fs,
         out |-> IF r.successful # <<>> THEN "moved"
                 ELSE IF r.failed # <<>> THEN "failed" ELSE "skipped"])

RECURSIVE migrateAll(_, _, _, _)
migrateAll(f, h, ms, outs) ==
    IF ms = <<>> THEN [fs |-> f, outs |-> outs]
    ELSE Bind(migrateOne(f, h, Head(ms)),
              LAMBDA r : migrateAll(r.fs, h, Tail(ms), Append(outs, r.out)))

oldDirs == <<P_TOOLS, P_OLD_TASKS, P_AGENTS_PLANS_LOCAL>>

\* "Clean up empty old directories"; readdir of something else than a
\* directory throws
RECURSIVE cleanOldDirs(_, _)
cleanOldDirs(f, ds) ==
    IF ds = <<>> THEN Ok(f)
    ELSE IF ~Exists(f, Head(ds)) THEN cleanOldDirs(f, Tail(ds))
    ELSE IF ~IsDirectory(f, Head(ds)) THEN Fail(f, "ENOTDIR")
    ELSE IF Under(f, Head(ds)) = {Head(ds)}
        THEN cleanOldDirs(RemoveSync(f, Head(ds)), Tail(ds))
    ELSE cleanOldDirs(f, Tail(ds))

\* "Update .gitignore"
migrateGitignore(f) ==
    LET content == ReadFile(f, P_GITIGNORE)
        newPattern == <<NL, "# ContextForge - ephemeral plans", NL>> \o G_NEW
                      \o <<NL>> \o G_KEEP_NEW \o <<NL>>
    IN IF ~Exists(f, P_GITIGNORE) THEN Ok(f)
       ELSE IF ~IsFile(f, P_GITIGNORE) THEN Fail(f, "EISDIR")
       ELSE IF Includes(content, G_OLD)
           THEN WriteFileSync(f, P_GITIGNORE,
                    JsReplaceAll(JsReplaceAll(content, G_OLD, G_NEW),
                                 G_KEEP_OLD, G_KEEP_NEW))
       ELSE IF ~Includes(content, G_NEW)
           THEN WriteFileSync(f, P_GITIGNORE, TrimEnd(content) \o newPattern)
       ELSE Ok(f)

migrateFiles(f, h, analysis) ==
    Bind(migrateAll(f, h, analysis.migrations, <<>>), LAMBDA moved :
    Bind(cleanOldDirs(moved.fs, oldDirs), LAMBDA cleaned :
    Bind(migrateGitignore(cleaned.fs), LAMBDA ignored :
        [fs |-> IF cleaned.err # "none" THEN cleaned.fs ELSE ignored.fs,
         err |-> IF cleaned.err # "none" THEN cleaned.err ELSE ignored.err,
         outs |-> moved.outs])))

\* update-references.js.  A pattern with wordAfter set ends in \b: it matches
\* only before a word.
Rep(pattern, replacement) ==
    [pattern |-> pattern, replacement |-> replacement, wordAfter |-> FALSE]

REPLACEMENTS ==
    <<Rep(T_TOOLS, <<"agents", "/", "skills", "/">>),
      Rep(T_TASKS, <<"agents", "/", "plans", "/">>),
      Rep(T_PLANS_LOCAL, <<"agents", "/", "plans", "/", "local", "/">>),
      Rep(T_TASKS \o <<"tasks", ".", "md">>, <<"agents", "/", "plans", "/", "tasks", ".", "md">>),
      Rep(<<"agents", "/", "reference", "/", "tool", "-", "patterns", ".", "md">>,
          <<"agents", "/", "reference", "/", "skill", "-", "patterns", ".", "md">>),
      Rep(<<BQ, "agents", "/", "tools", BQ>>, <<BQ, "agents", "/", "skills", BQ>>),
      Rep(<<BQ, "agents", "/", "tasks", BQ>>, <<BQ, "agents", "/", "plans", BQ>>),
      Rep(<<BQ, "agents", "/", "plans", "-", "local", BQ>>,
          <<BQ, "agents", "/", "plans", "/", "local", BQ>>),
      Rep(<<"tool", "-", "patterns", ".", "md">>, <<"skill", "-", "patterns", ".", "md">>),
      Rep(<<"tools", "/", " ", "directory">>, <<"skills", "/", " ", "directory">>),
      [pattern |-> <<"tools", "/">>, replacement |-> <<"skills", "/">>, wordAfter |-> TRUE],
      Rep(<<"#", " ", "Tools">>, <<"#", " ", "Skills">>),
      Rep(<<"#", "#", " ", "Tools">>, <<"#", "#", " ", "Skills">>),
      Rep(<<"#", "#", "#", " ", "Tools">>, <<"#", "#", "#", " ", "Skills">>)>>

\* content.replace(pattern, replacement) for a /g pattern, from position i on
RECURSIVE RegexReplaceFrom(_, _, _)
RegexReplaceFrom(s, r, i) ==
    LET n == Len(r.pattern) IN
    IF i > Len(s) THEN <<>>
    ELSE IF /\ MatchAt(s, r.pattern, i)
            /\ r.wordAfter => /\ i + n <= Len(s) /\ IsWord(s[i + n])
                              /\ i = 1 \/ ~IsWord(s[i - 1])
        THEN r.replacement \o RegexReplaceFrom(s, r, i + n)
    ELSE <<s[i]>> \o RegexReplaceFrom(s, r, i + 1)

\* the loop over REPLACEMENTS: the content, and how many patterns changed it
RECURSIVE replaceAll(_, _, _)
replaceAll(content, rs, applied) ==
    IF rs = <<>> THEN [content |-> content, applied |-> applied]
    ELSE Bind(RegexReplaceFrom(content, Head(rs), 1), LAMBDA after :
              replaceAll(after, Tail(rs), IF after # content THEN applied + 1 ELSE applied))

updateFileReferences(f, filePath) ==
    IF ~IsFile(f, filePath) THEN [fs |-> f, updated |-> FALSE, err |-> "EISDIR"]
    ELSE Bind(replaceAll(ReadFile(f, filePath), REPLACEMENTS, 0), LAMBDA r :
            IF r.applied > 0
            THEN Bind(WriteFileSync(f, filePath, r.content), LAMBDA w :
                    [fs |-> w.fs, updated |-> w.err = "none", err |-> w.err])
            ELSE [fs |-> f, updated |-> FALSE, err |-> "none"])

breadcrumbs ==
    <<P_CLAUDE_MD, <<"GEMINI.md">>, <<".cursor", "rules", "project.mdc">>,
      <<".github", "copilot-instructions.md">>>>

\* the two loops of updateReferences: every path is looked up as it was
\* recorded, skipped when nothing is there, and rewritten in place otherwise
RECURSIVE updateEach(_, _, _)
updateEach(f, paths, res) ==
    IF paths = {} THEN [fs |-> f, res |-> res]
    ELSE LET q == CHOOSE x \in paths : TRUE
         IN IF ~Exists(f, q)
                THEN updateEach(f, paths \ {q}, [res EXCEPT !.notFound = @ \cup {q}])
            ELSE Bind(updateFileReferences(f, q), LAMBDA r :
                    updateEach(r.fs, paths \ {q},
                        IF r.updated THEN [res EXCEPT !.updated = @ \cup {q}] ELSE res))

updateReferences(f, analysis) ==
    Bind(updateEach(f, analysis.fileUpdates, [updated |-> {}, notFound |-> {}]),
         LAMBDA listed :
    Bind(updateEach(listed.fs, SeqRange(breadcrumbs), [updated |-> {}, notFound |-> {}]),
         LAMBDA crumbs :
        [fs |-> crumbs.fs,
         filesUpdated |-> listed.res.updated,
         notFound |-> listed.res.notFound,
         breadcrumbsUpdated |-> crumbs.res.updated]))

\* askConfirmation of scripts/upgrade.js
askConfirmation(answer) == ToLowerCase(answer) \in {<<"y">>, <<"y", "e", "s">>}

\* whether git status --porcelain prints nothing; outside a repository it
\* fails and the upgrade is not held up
isGitClean(h) == h.clean

\* projects the skill is run in
D_REF == <<"see", " ">> \o T_TOOLS \o <<"git">>
D_PLAIN == <<"x">>
D_TASKS == T_TASKS \o <<"tasks", ".", "md">>

SkillEntries ==
    [tools |-> {<<>>, <<[p |-> P_TOOLS \o <<"README.md">>, n |-> File(D_REF)]>>,
                <<[p |-> P_TOOLS \o <<"README.md">>, n |-> File(D_PLAIN)]>>},
     skills |-> {<<>>, <<[p |-> P_SKILLS, n |-> Dir]>>},
     tasks |-> {<<>>, <<[p |-> P_OLD_TASKS_MD, n |-> File(D_TASKS)]>>},
     readme |-> {<<>>, <<[p |-> P_AGENTS_README, n |-> File(D_REF)]>>},
     claude |-> {<<>>, <<[p |-> P_CLAUDE_MD, n |-> File(D_REF)]>>},
     local |-> {<<>>, <<[p |-> P_AGENTS_PLANS_LOCAL \o <<"notes.md">>, n |-> File(D_PLAIN)]>>},
     ignore |-> {<<>>, <<[p |-> P_GITIGNORE, n |-> File(G_OLD \o <<NL>>)]>>,
                 <<[p |-> P_GITIGNORE, n |-> File(<<"x", NL>>)]>>},
     links |-> {<<>>, <<[p |-> P_CLAUDE_README, n |-> File(D_PLAIN)]>>}]

SkillRoots ==
    {EmptyRoot}
    \cup {WithAll(With(EmptyRoot, P_AGENTS, Dir),
                  e.tools \o e.skills \o e.tasks \o e.readme \o e.claude \o e.local
                  \o e.ignore \o e.links) :
            e \in {x \in [tools : SkillEntries.tools, skills : SkillEntries.skills,
                          tasks : SkillEntries.tasks, readme : SkillEntries.readme,
                          claude : SkillEntries.claude, local : SkillEntries.local,
                          ignore : SkillEntries.ignore, links : SkillEntries.links] :
                    /\ x.tasks # <<>> \/ x.local # <<>> \/ x.links # <<>>
                        => x.skills = <<>> /\ x.claude = <<>> /\ x.readme = <<>>
                    /\ x.readme # <<>> => x.claude = <<>>
                    /\ x.links # <<>> => x.tasks = <<>> /\ x.local = <<>>}}

\* the projects in which the prompts are answered
PromptRoots ==
    {WithAll(With(EmptyRoot, P_AGENTS, Dir), e) :
        e \in {<<>>, <<[p |-> P_TOOLS \o <<"README.md">>, n |-> File(D_REF)]>>}}

SkillHosts ==
    {[win32 |-> FALSE, probe |-> TRUE, symlink |-> "ok", git |-> g, manifest |-> "plain",
      clean |-> c] :
        <<g, c>> \in {<<"none", TRUE>>, <<"tracked", TRUE>>, <<"tracked", FALSE>>,
                      <<"untracked", FALSE>>}}

\* parseArgs, and what the user types at a prompt
SkillSetups ==
    {x \in [dryRun : BOOLEAN, auto : BOOLEAN, answer : {<<"y">>, <<"N">>}] :
        x.auto => x.answer = <<"y">>}

NoAnalysis ==
    [migrations |-> <<>>, fileUpdates |-> {}, legacyFiles |-> <<>>, newAdditions |-> 0,
     totalChanges |-> 0]
NoRefs == [filesUpdated |-> {}, notFound |-> {}, breadcrumbsUpdated |-> {}]

InitSkill ==
    /\ fs \in SkillRoots
    /\ host \in SkillHosts
    /\ \E x \in SkillSetups :
        /\ (x.auto /\ ~x.dryRun) \/ fs \in PromptRoots
        /\ run = [opts |-> [dryRun |-> x.dryRun, auto |-> x.auto], answer |-> x.answer,
               analysis |-> NoAnalysis, outs |-> <<>>, refs |-> NoRefs, exit |-> -1]
    /\ pc = "skill-start"
    /\ hist = NoHist(fs)
    /\ txt = <<>>

\* upgrade(): steps 1 to 4, up to the confirmation
SkillDetect ==
    /\ pc = "skill-start"
    /\ LET analysis == detectStructure(fs)
           continue == isGitClean(host) \/ run.opts.auto \/ askConfirmation(run.answer)
           proceed == run.opts.auto \/ askConfirmation(run.answer)
       IN IF ~Exists(fs, P_AGENTS)
              THEN /\ pc' = "skill-end" /\ run' = [run EXCEPT !.exit = 1]
          ELSE IF ~continue
              THEN /\ pc' = "skill-end" /\ run' = [run EXCEPT !.exit = 0]
          ELSE IF analysis.totalChanges = 0 \/ run.opts.dryRun
              THEN /\ pc' = "skill-end"
                   /\ run' = [run EXCEPT !.analysis = analysis, !.exit = 0]
          ELSE IF ~proceed
              THEN /\ pc' = "skill-end"
                   /\ run' = [run EXCEPT !.analysis = analysis, !.exit = 0]
          ELSE /\ pc' = "skill-migrate"
               /\ run' = [run EXCEPT !.analysis = analysis]
    /\ UNCHANGED <<fs, host, hist, txt>>

\* step 5: migrateFiles
SkillMigrate ==
    /\ pc = "skill-migrate"
    /\ \E r \in {migrateFiles(fs, host, run.analysis)} :
          /\ fs' = r.fs
          /\ run' = [run EXCEPT !.outs = r.outs,
                                !.exit = IF r.err = "none" THEN @ ELSE 1]
          /\ pc' = IF r.err = "none" THEN "skill-update" ELSE "skill-end"
    /\ UNCHANGED <<host, hist, txt>>

\* step 6: updateReferences
SkillUpdate ==
    /\ pc = "skill-update"
    /\ \E r \in {updateReferences(fs, run.analysis)} :
          /\ fs' = r.fs
          /\ run' = [run EXCEPT !.refs = [filesUpdated |-> r.filesUpdated,
                                          notFound |-> r.notFound,
                                          breadcrumbsUpdated |-> r.breadcrumbsUpdated]]
    /\ pc' = "skill-updated"
    /\ UNCHANGED <<host, hist, txt>>

NextSkill == SkillDetect \/ SkillMigrate \/ SkillUpdate

SpecSkill == InitSkill /\ [][NextSkill]_vars

\* the files that a completed move of this run relocated, with their new paths
Relocated ==
    {<<q, Rebase(q, m.from, m.to)>> : <<q, m>> \in
        {x \in (DOMAIN hist.fs0) \X SeqRange(run.analysis.migrations) :
            /\ IsPrefix(x[2].from, x[1])
            /\ \E i \in 1..Len(run.outs) :
                run.analysis.migrations[i] = x[2] /\ run.outs[i] = "moved"}}

Rewritten(content) == replaceAll(content, REPLACEMENTS, 0).content

\* C8: when the skill's upgrade has moved files and updated references, every
\* file that was both relocated by a move and selected for rewriting is at
\* its new path with its references rewritten, and no rewrite was addressed
\* to the path the move emptied.
C8_MovedFileRewritten ==
    pc = "skill-updated"
    => \A x \in Relocated :
        x[1] \in run.analysis.fileUpdates
        => /\ IsFile(fs, x[2])
           /\ ReadFile(fs, x[2]) = Rewritten(hist.fs0[x[1]].c)
           /\ x[1] \notin run.refs.notFound

\* what the code does keep: the move comes first, and a relocated file is at
\* its new path with the text it had
C8_MovedFileKept ==
    pc = "skill-updated"
    => \A x \in Relocated :
        hist.fs0[x[1]].k = "file"
        => /\ IsFile(fs, x[2])
           /\ ~Exists(fs, x[1])
           /\ ReadFile(fs, x[2]) = hist.fs0[x[1]].c

(***************************************************************************)
(* Properties of upgrade.plan and upgrade.apply                            *)
(***************************************************************************)
UpgradePlanned == Planned /\ run.kind = "upgrade"
\* the apply that just ended ran on the tree its change set was planned from
AppliedAsPlanned == AfterApply /\ run.kind = "upgrade" /\ hist.fsBefore = hist.fsPlan
LegacyPairs == SeqRange(MIGRATIONS.directories)
ToolsWithoutSkills(f) == Exists(f, P_TOOLS) /\ ~Exists(f, P_SKILLS)

\* C11: a returned upgrade plan holds a move for exactly the pairs of
\* MIGRATIONS.directories whose old path exists and whose new path does not,
\* each once; with agents/tools and without agents/skills it holds exactly one
\* move of agents/tools, to agents/skills; and after apply outside git
\* agents/tools is gone and everything that was under it is under
\* agents/skills, unchanged.
C11_MovesPlannedAndDone ==
    /\ UpgradePlanned
        => /\ SeqRange(run.changes.moves) =
                {m \in LegacyPairs : Exists(hist.fsPlan, m.from) /\ ~Exists(hist.fsPlan, m.to)}
           /\ \A i, j \in 1..Len(run.changes.moves) :
                run.changes.moves[i] = run.changes.moves[j] => i = j
           /\ ToolsWithoutSkills(hist.fsPlan)
                => Cardinality({i \in 1..Len(run.changes.moves) :
                                    run.changes.moves[i].from = P_TOOLS}) = 1
                   /\ [from |-> P_TOOLS, to |-> P_SKILLS] \in SeqRange(run.changes.moves)
    /\ AppliedAsPlanned /\ host.git = "none" /\ ToolsWithoutSkills(hist.fsBefore)
        => /\ ~Lstat(fs, P_TOOLS)
           /\ \A q \in Under(hist.fsBefore, P_TOOLS) :
                /\ Lstat(fs, Rebase(q, P_TOOLS, P_SKILLS))
                /\ fs[Rebase(q, P_TOOLS, P_SKILLS)] = hist.fsBefore[q]

C11_Witness ==
    /\ AppliedAsPlanned /\ host.git = "none" /\ run.pkg = "context-forge"
    /\ [from |-> P_TOOLS, to |-> P_SKILLS] \in SeqRange(run.changes.moves)
    /\ Lstat(hist.fsBefore, P_TOOLS \o <<"README.md">>)
    /\ Lstat(fs, P_SKILLS \o <<"README.md">>) /\ ~Lstat(fs, P_TOOLS)

\* a terminology pattern occurs in the content of file p of tree f
MatchesTerminology(f, p) ==
    \E t \in Terms : Includes(ReadFile(f, p), MIGRATIONS.terminology[t].from)

ModificationsOf(p) ==
    {i \in 1..Len(run.changes.modifications) : run.changes.modifications[i].path = p}

\* C12: a returned upgrade plan, the first of the process or a later one, holds
\* exactly one modification entry for each of AGENTS.md, agents/README.md and
\* README.md that exists and matches a terminology pattern, and none for a
\* file that matches no pattern.
C12_OneModificationPerMatchingFile ==
    UpgradePlanned
    => \A p \in SeqRange(filesToUpdate) :
        Cardinality(ModificationsOf(p)) =
            IF Exists(hist.fsPlan, p) /\ MatchesTerminology(hist.fsPlan, p) THEN 1 ELSE 0

\* what holds of every plan: at most one entry per file, and only for a file
\* that matches a pattern
C12_ModificationOnlyForMatchingFile ==
    UpgradePlanned
    => \A p \in SeqRange(filesToUpdate) :
        /\ Cardinality(ModificationsOf(p)) <= 1
        /\ ModificationsOf(p) # {}
            => Exists(hist.fsPlan, p) /\ MatchesTerminology(hist.fsPlan, p)


\* the symlink operations of the applied plan that apply has reached: the
\* completed ones and the one that threw
SymlinkOpsReached ==
    {i \in 1..Len(AppliedOps) :
        /\ AppliedOps[i].op = "symlink"
        /\ i <= run.done + (IF run.err = "none" THEN 0 ELSE 1)}

IsLinkTo(f, p, target) == Lstat(f, p) /\ f[p].k = "link" /\ f[p].t = target

\* C13: on a host whose symlinkSync works, every symlink creation or fix-up
\* that apply has carried out leaves at the link path a symlink to the
\* manifest's target, whatever was at the link path before.
C13_SymlinkReplacesAnything ==
    (AfterApply /\ host.symlink = "ok")
    => \A i \in SymlinkOpsReached :
        \/ ~Exists(fs, Dirname(AppliedOps[i].path))
        \/ IsLinkTo(fs, AppliedOps[i].path, AppliedOps[i].target)

\* what holds: a link path that held a file, a directory or a link that
\* resolves is replaced by the symlink
C13_ResolvingPathReplaced ==
    (AfterApply /\ host.symlink = "ok")
    => \A i \in SymlinkOpsReached :
        (Exists(hist.fsBefore, AppliedOps[i].path) /\ hist.fsBefore = hist.fsPlan)
        => IsLinkTo(fs, AppliedOps[i].path, AppliedOps[i].target)


\* the state of a manifest symlink in tree f, read off the tree
LinkState(f, l) ==
    IF ~Lstat(f, l.link) THEN "missing"
    ELSE IF f[l.link].k = "link" /\ ~Exists(f, l.link) THEN "broken"
    ELSE IF f[l.link].k = "link" /\ f[l.link].t = l.target THEN "valid"
    ELSE "wrong target"

Count(q, x) == Cardinality({i \in 1..Len(q) : q[i] = x})

SymlinksPlanned ==
    /\ UpgradePlanned
    /\ run.pkg = "workspace-agents"
    /\ ~run.opts.skipSymlinks
    /\ isSymlinkSupported(host)

\* C14: the upgrade plan of workspace-agents, when symlinks are planned at all,
\* holds for every manifest symlink one creation entry and no fix-up when the
\* link is missing, one fix-up entry and no creation when it is dangling or
\* is a non-link or a link to another target, and no entry when it is valid.
C14_SymlinkClassified ==
    SymlinksPlanned
    => \A l \in SeqRange(getManifest(host).symlinks) :
        LET st == LinkState(hist.fsPlan, l) IN
        /\ Count(run.changes.symlinks, l) = (IF st = "missing" THEN 1 ELSE 0)
        /\ Count(run.changes.symlinkFixes, l) =
                (IF st \in {"broken", "wrong target"} THEN 1 ELSE 0)

C14_Witness ==
    /\ SymlinksPlanned
    /\ \E l \in SeqRange(getManifest(host).symlinks) :
        /\ LinkState(hist.fsPlan, l) = "broken"
        /\ run.changes.symlinkFixes = <<l>>
        /\ run.changes.symlinks = <<>>


(***************************************************************************)
(* Properties of determineAction.                                          *)
(***************************************************************************)
Detected == run.mode = "cli" /\ pc # "start"

\* a pair of the legacy mapping table has its old path and lacks its new one
LegacyPairOpen(f) == \E m \in LegacyPairs : Exists(f, m.from) /\ ~Exists(f, m.to)

\* C15: determineAction reports no framework, and answers scaffold, exactly
\* when neither agents/ nor AGENTS.md exists; with a framework it reports the
\* legacy layout exactly when some pair of the legacy mapping table has its
\* old path present and its new path absent, and the current layout otherwise.
C15_Classification ==
    Detected
    => LET none == ~Exists(hist.fsRun, P_AGENTS) /\ ~Exists(hist.fsRun, P_AGENTS_MD) IN
        /\ (run.layout = "NoFramework") = none
        /\ (run.kind = "scaffold") = none
        /\ ~none => run.layout =
                        (IF LegacyPairOpen(hist.fsRun) THEN "LegacyLayout" ELSE "CurrentLayout")

\* what holds: scaffold exactly without a framework, and the legacy layout
\* exactly when agents/tools or plans-local exists
C15_ScaffoldIffNoFramework ==
    Detected
    => LET none == ~Exists(hist.fsRun, P_AGENTS) /\ ~Exists(hist.fsRun, P_AGENTS_MD) IN
        /\ (run.layout = "NoFramework") = none
        /\ (run.kind = "scaffold") = none
        /\ ~none => run.layout =
                        (IF Exists(hist.fsRun, P_TOOLS) \/ Exists(hist.fsRun, P_OLD_PLANS_LOCAL)
                         THEN "LegacyLayout" ELSE "CurrentLayout")


(***************************************************************************)
(* Properties of the symlinks of a plan.                                   *)
(***************************************************************************)
NoSymlinkPlanned == run.changes.symlinks = <<>> /\ run.changes.symlinkFixes = <<>>

\* apply has put no symlink into the tree it started from
NoSymlinkCreated ==
    \A p \in DOMAIN fs :
        fs[p].k = "link" => (p \in DOMAIN hist.fsBefore /\ hist.fsBefore[p] = fs[p])

\* C16 as stated: with skipSymlinks set, or on a host that cannot create
\* symlinks, no plan holds a symlink creation or fix-up and apply creates none.
C16_NoSymlinkWithoutCapability ==
    (run.opts.skipSymlinks \/ host.symlink # "ok")
    => /\ Planned => NoSymlinkPlanned
       /\ AfterApply => NoSymlinkCreated

\* the host is Windows and the test link of isSymlinkSupported cannot be made
NoTestLink == host.win32 /\ ~host.probe

\* C16, amended: with skipSymlinks set, or when isSymlinkSupported reports no
\* support (on Windows the test link could not be made), no plan, scaffold or
\* upgrade, holds a symlink creation or fix-up, and apply creates no symlink.
C16_NoSymlinkWhenSkipped ==
    (run.opts.skipSymlinks \/ NoTestLink)
    => /\ Planned => NoSymlinkPlanned
       /\ AfterApply => NoSymlinkCreated

C16_Witness ==
    /\ AfterApply /\ run.err = "none" /\ run.done > 0
    /\ ~run.opts.skipSymlinks /\ NoTestLink
    /\ NoSymlinkPlanned
    /\ \E l \in SeqRange(getManifest(host).symlinks) :
        ~Lstat(hist.fsPlan, l.link) /\ ~Lstat(fs, l.link)


(***************************************************************************)
(* The same runs with a package whose manifest names a template that is    *)
(* not in its templates directory.                                         *)
(***************************************************************************)
StaleHost == [DefaultHost EXCEPT !.manifest = "stale"]

StaleSetups ==
    {s \in [entry : Entries, opts : Options, host : {StaleHost}, name : {<<"demo">>}] :
        /\ s.entry[1] = "lib" => ~s.opts.yes
        /\ s.entry[2] = "upgrade" => ~s.opts.force}

InitStale ==
    /\ fs \in Roots(0) \cup {With(EmptyRoot, P_CLAUDE_MD, File(<<"mine">>))}
    /\ \E s \in StaleSetups :
        /\ host = s.host
        /\ run = NewRun(s.entry[1], s.entry[2], s.entry[3], s.opts, s.name)
        /\ pc = IF s.entry[1] = "cli" THEN "start" ELSE "plan"
    /\ hist = NoHist(fs)
    /\ txt = <<>>

SpecStale == InitStale /\ [][NextMain]_vars

TemplateMissed == AfterApply /\ run.err = "Template not found"

\* C17: when apply fails on a planned file creation whose template is not
\* bundled, nothing under the project root has been created or changed.
C17_MissingTemplateFailsFirst == TemplateMissed => fs = hist.fsBefore

\* what holds: the failing creation is the operation apply stops at, and the
\* file it names is as it was
C17_FailureStopsApply ==
    TemplateMissed
    => /\ run.done < Len(AppliedOps)
       /\ AppliedOps[run.done + 1].op = "writeFile"
       /\ ~TemplateFound(AppliedOps[run.done + 1].template)
       /\ LET p == AppliedOps[run.done + 1].path IN
            Lstat(fs, p) = Lstat(hist.fsBefore, p)


(***************************************************************************)
(* version-checker: isNewer and the update check.  A version is the list   *)
(* of the pieces split('.') gives; Number turns a piece of digits into its *)
(* value and any other piece into NaN, and `x || 0` makes 0 of NaN, of 0   *)
(* and of a piece that is not there.                                       *)
(***************************************************************************)
VersionPieces == {"0", "1", "9", "10", "1-beta"}

\* Number(piece) is NaN
IsNaN(piece) == piece \notin {"0", "1", "9", "10"}

\* Number(piece) where it is a number
Number(piece) ==
    CASE piece = "0" -> 0
      [] piece = "1" -> 1
      [] piece = "9" -> 9
      [] piece = "10" -> 10

\* the order of the pieces as strings
TextRank(piece) ==
    CASE piece = "0" -> 0
      [] piece = "1" -> 1
      [] piece = "1-beta" -> 2
      [] piece = "10" -> 3
      [] OTHER -> 4

\* (l[i] || 0)
OrZero(v, i) == IF i > Len(v) \/ IsNaN(v[i]) THEN 0 ELSE Number(v[i])

\* a comparison of the pieces as strings
RECURSIVE isNewerFromText(_, _, _)
isNewerFromText(latest, current, i) ==
    IF i > 3 THEN FALSE
    ELSE LET l == IF i > Len(latest) THEN 0 ELSE TextRank(latest[i])
             c == IF i > Len(current) THEN 0 ELSE TextRank(current[i])
         IN IF l > c THEN TRUE
            ELSE IF l < c THEN FALSE
            ELSE isNewerFromText(latest, current, i + 1)

RECURSIVE isNewerFrom(_, _, _)
isNewerFrom(latest, current, i) ==
    IF i > 3 THEN FALSE
    ELSE IF OrZero(latest, i) > OrZero(current, i) THEN TRUE
    ELSE IF OrZero(latest, i) < OrZero(current, i) THEN FALSE
    ELSE isNewerFrom(latest, current, i + 1)

isNewerText(latest, current) == isNewerFromText(latest, current, 1)

isNewer(latest, current) == isNewerFrom(latest, current, 1)

RECURSIVE VersionsOfLen(_)
VersionsOfLen(n) ==
    IF n = 0 THEN {<<>>}
    ELSE {Append(v, x) : v \in VersionsOfLen(n - 1), x \in VersionPieces}

Versions == UNION {VersionsOfLen(n) : n \in 1..MaxParts}

InitVersion ==
    /\ txt \in [latest : Versions, current : Versions, newer : {FALSE},
                older : {FALSE}, available : {FALSE}]
    /\ pc = "check"
    /\ fs = EmptyRoot /\ host = DefaultHost /\ run = Idle /\ hist = NoHist(EmptyRoot)

\* check(): the registry has answered with txt.latest, package.json holds
\* txt.current; the comparison is also made the other way round
VersionCheck ==
    /\ pc = "check"
    /\ txt' = [txt EXCEPT
                !.newer = isNewer(txt.latest, txt.current),
                !.older = isNewer(txt.current, txt.latest),
                !.available = txt.latest # txt.current /\ isNewer(txt.latest, txt.current)]
    /\ pc' = "checked"
    /\ UNCHANGED <<fs, host, run, hist>>

SpecVersion == InitVersion /\ [][VersionCheck]_vars

\* a version of one to three pieces of digits, and its triple
Numeric(v) == Len(v) <= 3 /\ \A i \in 1..Len(v) : ~IsNaN(v[i])
Triple(v) == [i \in 1..3 |-> IF i <= Len(v) THEN Number(v[i]) ELSE 0]
Greater(a, b) ==
    \E i \in 1..3 : a[i] > b[i] /\ \A j \in 1..(i - 1) : a[j] = b[j]

\* C18: for versions made of numbers, isNewer(latest, current) is true exactly
\* when the triple of latest is greater than the triple of current in numeric
\* lexicographic order; for all versions it is false when both are the same
\* and never true in both directions.
C18_IsNewerIsNumericOrder ==
    pc = "checked"
    => /\ (Numeric(txt.latest) /\ Numeric(txt.current))
            => (txt.newer = Greater(Triple(txt.latest), Triple(txt.current)))
       /\ txt.latest = txt.current => ~txt.newer
       /\ ~(txt.newer /\ txt.older)

C18_Witness ==
    /\ pc = "checked"
    /\ txt.latest = <<"1", "10", "0">> /\ txt.current = <<"1", "9", "0">>
    /\ txt.newer /\ ~txt.older /\ txt.available


(***************************************************************************)
(* Properties of the file entries of scaffold.plan and of their apply.     *)
(***************************************************************************)
ScaffoldPlanned == Planned /\ run.kind = "scaffold"

\* C19: scaffold.plan marks a manifest file 'create' exactly when its
\* destination does not exist, or exists with skipIfExists false and force set;
\* an existing file with skipIfExists true is never marked 'create'.
C19_CreateRule ==
    ScaffoldPlanned
    => \A i \in 1..Len(getManifest(host).files) :
        LET file == getManifest(host).files[i]
            exists == Exists(hist.fsPlan, file.dest)
        IN (run.changes.files[i].action = "create")
            = (~exists \/ (~file.skipIfExists /\ run.opts.force))

\* what holds: 'create' exactly when the destination does not exist or force
\* is set, whatever skipIfExists says
C19_CreateIffAbsentOrForce ==
    ScaffoldPlanned
    => \A i \in 1..Len(getManifest(host).files) :
        (run.changes.files[i].action = "create")
            = (~Exists(hist.fsPlan, getManifest(host).files[i].dest) \/ run.opts.force)


\* another process has created a file the plan is about to create
RacedCreate ==
    /\ AfterApply
    /\ hist.race.kind = "create"
    /\ ~Exists(hist.fsPlan, hist.race.p)
    /\ IsFile(hist.fsBefore, hist.race.p)

\* C20: a file that was absent when the plan was computed and exists when
\* apply runs is skipped by apply: it holds afterwards what it held when apply
\* started.
C20_RacedFileKept ==
    RacedCreate => ReadFile(fs, hist.race.p) = ReadFile(hist.fsBefore, hist.race.p)

\* what holds: an apply that reaches the file writes the rendered template
\* over it
C20_RacedFileOverwritten ==
    (RacedCreate /\ run.err = "none" /\ run.round = 1)
    => \E i \in 1..Len(AppliedOps) :
        /\ AppliedOps[i].op = "writeFile" /\ AppliedOps[i].path = hist.race.p
        /\ ReadFile(fs, hist.race.p)
            = loadAndRender(AppliedOps[i].template, AppliedOps[i].variables)


(***************************************************************************)
(* The rewrite of one text file: planned, the file possibly edited by its  *)
(* owner, then applied, by upgrade.apply ("upgrade") or by the upgrade     *)
(* skill's updateFileReferences ("skill").  txt.writes counts the calls of *)
(* writeFile(Sync) on the file; txt.orig is its content when it was        *)
(* planned and txt.before its content when apply starts.                   *)
(***************************************************************************)
RewriteContents ==
    {<<"See", "agents", "/", "tools", "/">>, <<"use", "plans-local">>, <<"mine">>,
     <<BQ, "tools", "/", BQ>>, <<"tools", "/", "x">>, <<"agents", "/", "skills", "/">>}

RewriteRoot(c) == Put(EmptyRoot, P_AGENTS_MD, File(c))

InitRewrite ==
    /\ fs \in {RewriteRoot(c) : c \in RewriteContents}
    /\ txt \in [who : {"upgrade", "skill"}, planned : {FALSE}, writes : {0},
                orig : {<<>>}, before : {<<>>}]
    /\ pc = "rewrite-plan"
    /\ host = DefaultHost /\ run = Idle /\ hist = NoHist(EmptyRoot)

\* upgrade.plan's terminology loop, or detectStructure's hasOldReferences
RewritePlan ==
    /\ pc = "rewrite-plan"
    /\ txt' = [txt EXCEPT
                !.orig = ReadFile(fs, P_AGENTS_MD),
                !.planned =
                IF txt.who = "upgrade"
                THEN PlanModifications(fs, <<P_AGENTS_MD>>, FreshLastIndex).mods # <<>>
                ELSE hasOldReferences(ReadFile(fs, P_AGENTS_MD))]
    /\ pc' = "rewrite-edit"
    /\ UNCHANGED <<fs, host, run, hist>>

\* the owner of the file saves it, changed or not, before apply runs
RewriteEdit ==
    /\ pc = "rewrite-edit"
    /\ \E c \in RewriteContents : fs' = RewriteRoot(c)
    /\ pc' = "rewrite-apply"
    /\ UNCHANGED <<txt, host, run, hist>>

RewriteApply ==
    /\ pc = "rewrite-apply" /\ txt.planned
    /\ \E r \in {IF txt.who = "upgrade" THEN applyModification(fs, P_AGENTS_MD)
                 ELSE [wrote |-> updateFileReferences(fs, P_AGENTS_MD).updated,
                       fs |-> updateFileReferences(fs, P_AGENTS_MD).fs,
                       err |-> updateFileReferences(fs, P_AGENTS_MD).err]} :
        /\ fs' = r.fs
        /\ txt' = [txt EXCEPT !.writes = IF r.wrote THEN 1 ELSE 0,
                              !.before = ReadFile(fs, P_AGENTS_MD)]
    /\ pc' = "rewritten"
    /\ UNCHANGED <<host, run, hist>>

NextRewrite == RewritePlan \/ RewriteEdit \/ RewriteApply

SpecRewrite == InitRewrite /\ [][NextRewrite]_vars

\* C21: a text rewrite that has been applied wrote the file only if the
\* replacements changed the content it found.
C21_WriteOnlyIfChanged ==
    (pc = "rewritten" /\ txt.writes > 0) => ReadFile(fs, P_AGENTS_MD) # txt.before

\* what holds: updateFileReferences of the upgrade skill writes only a changed
\* content; upgrade.apply writes every file it has an entry for
C21_SkillWritesOnlyIfChanged ==
    pc = "rewritten"
    => IF txt.who = "skill"
       THEN (txt.writes > 0) = (ReadFile(fs, P_AGENTS_MD) # txt.before)
       ELSE txt.writes = 1


(***************************************************************************)
(* One move, by gitMv of git-ops ("lib") or by one turn of the upgrade     *)
(* skill's migrateFiles ("skill"), on a drawn project and host.            *)
(* txt.before is the tree the move found, txt.via what did the move.       *)
(***************************************************************************)
MovePairs ==
    LegacyPairs
    \cup {[from |-> <<"CONTRIBUTING.md">>, to |-> P_LEGACY \o <<"CONTRIBUTING.md">>]}

MoveHosts == {[DefaultHost EXCEPT !.git = g] : g \in {"none", "tracked", "untracked"}}

InitMove ==
    /\ fs \in Roots(MaxExtras)
    /\ host \in MoveHosts
    /\ txt \in [who : {"lib", "skill"}, pair : MovePairs, via : {""}, err : {""},
                before : {EmptyRoot}, successful : {<<>>}, failed : {<<>>}]
    /\ pc = "move"
    /\ run = Idle /\ hist = NoHist(EmptyRoot)

\* gitOps.gitMv(from, to, cwd)
MoveLib ==
    /\ pc = "move" /\ txt.who = "lib"
    /\ \E r \in {gitMvTraced(fs, host, txt.pair.from, txt.pair.to)} :
        /\ fs' = r.fs
        /\ txt' = [txt EXCEPT !.via = r.via, !.err = r.err, !.before = fs]
    /\ pc' = "moved"
    /\ UNCHANGED <<host, run, hist>>

\* migrateFiles, one migration
MoveSkill ==
    /\ pc = "move" /\ txt.who = "skill"
    /\ \E r \in {migrateOne(fs, host, txt.pair)}, e \in {migrateEntry(fs, host, txt.pair)} :
        /\ fs' = r.fs
        /\ txt' = [txt EXCEPT !.via = r.out,
                              !.err = IF r.out = "failed" THEN "failed" ELSE "none",
                              !.before = fs,
                              !.successful = e.successful, !.failed = e.failed]
    /\ pc' = "moved"
    /\ UNCHANGED <<host, run, hist>>

NextMove == MoveLib \/ MoveSkill

SpecMove == InitMove /\ [][NextMove]_vars

\* the tree that was at `from` in tree b is at `to` in tree f, and nothing is at
\* `from`
MovedTo(b, f, from, to) ==
    /\ ~Lstat(f, from)
    /\ \A q \in Under(b, from) :
        Lstat(f, Rebase(q, from, to)) /\ f[Rebase(q, from, to)] = b[q]

MoveSucceeded == pc = "moved" /\ txt.via \in {"git mv", "fs move", "moved"}

\* C22: gitMv uses git mv only in a git working tree and the plain move only
\* when git mv failed or outside a working tree, and fails only when the plain
\* move fails; after every move that succeeded, by gitMv or by the skill, the
\* source path is gone and the destination holds what the source held.
C22_MoveFallsBack ==
    /\ (pc = "moved" /\ txt.who = "lib")
        => LET made == EnsureDirSync(txt.before, Dirname(txt.pair.to)).fs IN
            /\ txt.via = "git mv" => isGitRepo(host)
            /\ (txt.via = "fs move" /\ isGitRepo(host))
                => GitMvCommand(made, host, txt.pair.from, txt.pair.to).err # "none"
            /\ (txt.via = "none" /\ Exists(made, Dirname(txt.pair.to)))
                => MoveSync(made, txt.pair.from, txt.pair.to).err # "none"
    /\ MoveSucceeded => MovedTo(txt.before, fs, txt.pair.from, txt.pair.to)

\* what holds: the same, for the moves whose destination did not exist
C22_MoveToFreePath ==
    /\ (pc = "moved" /\ txt.who = "lib")
        => LET made == EnsureDirSync(txt.before, Dirname(txt.pair.to)).fs IN
            /\ txt.via = "git mv" => isGitRepo(host)
            /\ (txt.via = "fs move" /\ isGitRepo(host))
                => GitMvCommand(made, host, txt.pair.from, txt.pair.to).err # "none"
            /\ (txt.via = "none" /\ Exists(made, Dirname(txt.pair.to)))
                => MoveSync(made, txt.pair.from, txt.pair.to).err # "none"
    /\ (MoveSucceeded /\ ~Lstat(txt.before, txt.pair.to))
        => MovedTo(txt.before, fs, txt.pair.from, txt.pair.to)


(***************************************************************************)
(* Properties of the skill copies.                                         *)
(***************************************************************************)
\* the skill directories of the manifest that exist in tree f
SkillsPresent(f) ==
    {n \in SeqRange(getManifest(host).skillsToCopy) : Exists(f, P_SKILLS \o <<n>>)}

SubtreeKept(b, f, p) ==
    /\ Under(f, p) = Under(b, p)
    /\ \A q \in Under(b, p) : f[q] = b[q]

\* C23: a skill directory that exists when apply starts is left as it is, by
\* scaffold.apply and by upgrade.apply: nothing in it is added, overwritten
\* or removed.
C23_ExistingSkillKept ==
    AfterApply
    => \A n \in SkillsPresent(hist.fsBefore) :
        SubtreeKept(hist.fsBefore, fs, P_SKILLS \o <<n>>)

\* what holds: scaffold.apply leaves an existing skill directory as it is, and
\* an apply that completes copies every planned skill that was not there
C23_ScaffoldKeepsSkill ==
    /\ (AfterApply /\ run.kind = "scaffold")
        => \A n \in SkillsPresent(hist.fsBefore) :
            SubtreeKept(hist.fsBefore, fs, P_SKILLS \o <<n>>)
    /\ (AfterApply /\ run.err = "none")
        => \A n \in SeqRange(run.changes.skillsToCopy) :
            (n \in DOMAIN BundledSkill /\ ~Lstat(hist.fsBefore, P_SKILLS \o <<n>>))
            => \A q \in DOMAIN BundledSkill[n] :
                fs[P_SKILLS \o <<n>> \o q] = BundledSkill[n][q]


(***************************************************************************)
(* Properties of the order of scaffold.apply.                              *)
(***************************************************************************)
\* the part of scaffold.apply operation i of the list belongs to: directories,
\* files, symlinks, .gitignore, skills (whose first step makes agents/skills)
StageAt(ops, i) ==
    CASE ops[i].op = "ensureDir" ->
            IF i < Len(ops) /\ ops[i + 1].op = "copyNewSkill" THEN 5 ELSE 1
      [] ops[i].op = "writeFile" -> 2
      [] ops[i].op = "symlink" -> 3
      [] ops[i].op = "gitignore" -> 4
      [] OTHER -> 5

\* C24: the operations scaffold.apply carries out come in the order
\* directories, files, symlinks, .gitignore, skills, and every file that has
\* been written lies in a directory.
C24_ScaffoldOrder ==
    (ScaffoldPlanned \/ (AfterApply /\ run.kind = "scaffold"))
    => /\ \A i, j \in 1..Len(AppliedOps) :
            i < j => StageAt(AppliedOps, i) <= StageAt(AppliedOps, j)
       /\ AfterApply
            => \A i \in 1..run.done :
                AppliedOps[i].op = "writeFile"
                => /\ IsDirectory(fs, Dirname(AppliedOps[i].path))
                   /\ IsFile(fs, AppliedOps[i].path)

C24_Witness ==
    /\ AfterApply /\ run.kind = "scaffold" /\ run.err = "none"
    /\ run.done = Len(AppliedOps)
    /\ {AppliedOps[i].op : i \in 1..Len(AppliedOps)}
        = {"ensureDir", "writeFile", "symlink", "gitignore", "copyNewSkill"}
    /\ ~Lstat(hist.fsBefore, P_PLANS) /\ IsFile(fs, P_PLANS \o <<"tasks.md">>)

\* ---------------------------------------------------------------------------
\* The registry request of the version check (version-checker.js check,
\* fetchLatestVersion; welcome-screen.js show)
\* ---------------------------------------------------------------------------

\* package.json's version, and the versions the registry may announce
CheckVersions == {<<"1", "0", "0">>, <<"1", "9", "0">>, <<"1", "10", "0">>}

Chunk(t, v) == [t |-> t, v |-> v]

\* the bodies the registry may send, in chunks: the package document with a
\* version string, with a version that is a number, without a version, and a
\* body that is no JSON
ResponseBodies ==
    {<<Chunk("{", <<>>), Chunk("version", v), Chunk("}", <<>>)>> : v \in CheckVersions}
    \cup {<<Chunk("{", <<>>), Chunk("versionNumber", <<>>), Chunk("}", <<>>)>>,
          <<Chunk("{", <<>>), Chunk("}", <<>>)>>,
          <<Chunk("<html>", <<>>), Chunk("</html>", <<>>)>>}

\* JSON.parse(data) and the read of json.version: ok is FALSE when parse throws
JSONparse(data) ==
    IF Len(data) = 2 /\ data[1].t = "{" /\ data[2].t = "}"
    THEN [ok |-> TRUE, has |-> FALSE, str |-> FALSE, version |-> <<>>]
    ELSE IF Len(data) = 3 /\ data[1].t = "{" /\ data[3].t = "}"
            /\ data[2].t \in {"version", "versionNumber"}
    THEN [ok |-> TRUE, has |-> TRUE, str |-> data[2].t = "version", version |-> data[2].v]
    ELSE [ok |-> FALSE, has |-> FALSE, str |-> FALSE, version |-> <<>>]

\* the 'end' handler of the response: resolve(json.version || pkg.version), or
\* reject what JSON.parse threw
onEnd(t) ==
    LET json == JSONparse(t.data) IN
    IF t.fetch # "pending" THEN t
    ELSE IF ~json.ok THEN [t EXCEPT !.fetch = "rejected", !.outcome = "unparsable"]
    ELSE [t EXCEPT !.fetch = "resolved", !.outcome = "response",
                   !.str = IF json.has THEN json.str ELSE TRUE,
                   !.value = IF json.has THEN json.version ELSE t.current]

\* reject(e) of the 'error' and 'timeout' handlers; a settled promise stays
reject(t, why) ==
    IF t.fetch # "pending" THEN t ELSE [t EXCEPT !.fetch = "rejected", !.outcome = why]

InitFetch ==
    /\ txt \in [current : CheckVersions, rest : {<<>>}, data : {<<>>}, fetch : {"pending"},
                str : {TRUE}, value : {<<>>}, outcome : {"none"}, check : {"pending"},
                latest : {<<>>}, available : {FALSE}]
    /\ pc = "sent"
    /\ fs = EmptyRoot /\ host = DefaultHost /\ run = Idle /\ hist = NoHist(EmptyRoot)

\* the request fails before a response: req.on('error', reject)
ReqError ==
    /\ pc = "sent"
    /\ txt' = reject(txt, "error")
    /\ pc' = "closed"
    /\ UNCHANGED <<fs, host, run, hist>>

\* the socket was idle for 2000 ms: req.destroy(), reject(new Error('timeout'))
ReqTimeout ==
    /\ pc \in {"sent", "receiving"}
    /\ txt' = reject(txt, "timeout")
    /\ pc' = "closed"
    /\ UNCHANGED <<fs, host, run, hist>>

\* the response callback: data = '', the two handlers are registered
Response ==
    /\ pc = "sent"
    /\ \E body \in ResponseBodies : txt' = [txt EXCEPT !.rest = body, !.data = <<>>]
    /\ pc' = "receiving"
    /\ UNCHANGED <<fs, host, run, hist>>

\* res.on('data', chunk => data += chunk)
ResData ==
    /\ pc = "receiving" /\ txt.rest # <<>>
    /\ txt' = [txt EXCEPT !.data = Append(txt.data, Head(txt.rest)), !.rest = Tail(txt.rest)]
    /\ UNCHANGED <<pc, fs, host, run, hist>>

\* res.on('end', ...) after the whole body
ResEnd ==
    /\ pc = "receiving" /\ txt.rest = <<>>
    /\ txt' = onEnd(txt)
    /\ pc' = "closed"
    /\ UNCHANGED <<fs, host, run, hist>>

\* the connection is lost after the response has begun: the response emits
\* 'aborted' and 'close', for which no handler is registered; whether 'end'
\* is emitted too depends on the version of Node
ResAborted ==
    /\ pc = "receiving" /\ txt.rest # <<>>
    /\ \E ended \in BOOLEAN :
        txt' = IF ended THEN onEnd(txt) ELSE [txt EXCEPT !.outcome = "aborted"]
    /\ pc' = "closed"
    /\ UNCHANGED <<fs, host, run, hist>>

\* check() after the await: the result with available, or the catch branch
\* (isNewer throws on a latest that is no string)
CheckSettles ==
    /\ txt.fetch # "pending" /\ txt.check = "pending"
    /\ txt' = IF txt.fetch = "resolved" /\ txt.str
              THEN [txt EXCEPT !.check = "resolved", !.latest = txt.value,
                        !.available = txt.value # txt.current /\ isNewer(txt.value, txt.current)]
              ELSE [txt EXCEPT !.check = "resolved", !.latest = txt.current,
                        !.available = FALSE]
    /\ UNCHANGED <<pc, fs, host, run, hist>>

NextFetch ==
    \/ ReqError \/ ReqTimeout \/ Response \/ ResData \/ ResEnd \/ ResAborted
    \/ CheckSettles

\* the request has some outcome, and a settled promise runs its reaction
SpecFetch == InitFetch /\ [][NextFetch]_vars /\ WF_vars(NextFetch)

\* C25: for every outcome of the registry request check() eventually resolves,
\* it never rejects, and on error, timeout or unparsable body it resolves with
\* available = FALSE.
C25_CheckAlwaysCompletes ==
    /\ <>(txt.check = "resolved")
    /\ [](txt.check # "rejected")
    /\ [](txt.check = "resolved" /\ txt.outcome \in {"error", "timeout", "unparsable"}
            => ~txt.available)

\* C25, for the outcomes that one of the registered handlers sees ('end',
\* 'error', 'timeout'): check() resolves, never rejects, and resolves with
\* available = FALSE unless the body announced a version string.
C25_HandledOutcomeCompletes ==
    /\ [](txt.fetch # "pending" => <>(txt.check = "resolved"))
    /\ [](txt.check # "rejected")
    /\ [](txt.check = "resolved" /\ txt.outcome \in {"error", "timeout", "unparsable"}
            => ~txt.available /\ txt.latest = txt.current)
    /\ [](pc = "closed" /\ txt.outcome # "aborted" => txt.fetch # "pending")

C25_Witness ==
    /\ pc = "closed" /\ txt.outcome = "aborted" /\ txt.fetch = "pending"
    /\ txt.check = "pending" /\ txt.data # <<>>

(***************************************************************************)
(* Legacy files of the root (upgrade.js findLegacyFiles, "Plan legacy file  *)
(* handling", "Move legacy files")                                         *)
(***************************************************************************)
RefersToOldLayout(f, p) ==
    \/ Includes(ReadFile(f, p), <<"agents", "/", "tools">>)
    \/ Includes(ReadFile(f, p), <<"plans-local">>)

C26_WitnessPlain ==
    /\ UpgradePlanned /\ Exists(hist.fsPlan, <<"CONTRIBUTING.md">>)
    /\ run.changes.legacy = <<>> /\ ~Lstat(hist.fsPlan, P_LEGACY)

(***************************************************************************)
(* Termination of upgrade.plan ("Ensure directories exist for creates")    *)
(***************************************************************************)
UpgradePlanCalled == LastStep = "plan" /\ run.kind = "upgrade"

\* a critical file the manifest lists that is missing together with its
\* parent directory
CreateWithoutDir(f, h, c) ==
    ~Exists(f, c) /\ ManifestFileFor(h, c) # <<>> /\ ~Exists(f, Dirname(c))

\* the entries of creates that name path p
CreatesAt(p) == {i \in 1..Len(run.changes.creates) : run.changes.creates[i].path = p}

\* C27: upgrade.plan terminates and returns a change set for every target
\* state and manifest; when a critical file is missing and its parent
\* directory does not exist, the plan returns with a directory entry before
\* the create entry of that file.
C27_PlanTerminates ==
    UpgradePlanCalled
    => /\ pc # "hung"
       /\ \A c \in SeqRange(criticalFiles) :
            CreateWithoutDir(hist.fsPlan, host, c)
            => \E i \in CreatesAt(Dirname(c)), j \in CreatesAt(c) : i < j

\* what holds: upgrade.plan returns exactly when no planned create lacks its
\* parent directory, and the creates of a returned plan are the missing
\* critical files of the manifest, without any directory entry.
C27_PlanReturnsIffDirsExist ==
    UpgradePlanCalled
    => /\ pc = "hung"
            <=> \E c \in SeqRange(criticalFiles) : CreateWithoutDir(hist.fsPlan, host, c)
       /\ pc # "hung"
            => \A c \in SeqRange(criticalFiles) :
                 /\ CreatesAt(Dirname(c)) = {}
                 /\ CreatesAt(c) # {}
                        <=> ~Exists(hist.fsPlan, c) /\ ManifestFileFor(host, c) # <<>>

C27_WitnessHung ==
    /\ UpgradePlanCalled /\ pc = "hung"
    /\ ~Exists(hist.fsPlan, P_CLAUDE_README) /\ ~Exists(hist.fsPlan, Dirname(P_CLAUDE_README))

C27_WitnessReturned ==
    /\ UpgradePlanCalled /\ pc # "hung" /\ CreatesAt(P_CLAUDE_README) # {}

(***************************************************************************)
(* The directory moves of one upgrade (upgrade.js MIGRATIONS, "Plan         *)
(* directory moves", "Execute moves")                                      *)
(***************************************************************************)
PlannedMoves == SeqRange(run.changes.moves)

\* two planned moves of which one goes into the destination of the other
NestedDestinations ==
    \E m, n \in PlannedMoves : m # n /\ IsPrefix(m.to, n.to)

BothPlansMoves ==
    {[from |-> P_OLD_PLANS_LOCAL, to |-> P_PLANS_LOCAL], [from |-> P_TASKS, to |-> P_PLANS]}

\* C28: when upgrade.apply runs on the plan just computed and nothing else
\* touched the filesystem, every planned move succeeds and what was under each
\* source is at exactly its planned destination, the source gone; also when
\* plans-local and tasks are both present and agents/plans is absent, in a git
\* work tree and outside.
C28_PlannedMovesSucceed ==
    AppliedAsPlanned
    => /\ run.done >= Len(run.changes.moves)
       /\ \A m \in PlannedMoves : MovedTo(hist.fsBefore, fs, m.from, m.to)

\* what holds: the planned moves succeed when no planned destination lies
\* inside another; with plans-local and tasks both planned, the move of tasks
\* either throws (outside git, and in git when git mv fails) or puts tasks
\* under agents/plans/tasks.
C28_IndependentMovesSucceed ==
    AppliedAsPlanned
    => /\ ~NestedDestinations
            => /\ run.done >= Len(run.changes.moves)
               /\ \A m \in PlannedMoves : MovedTo(hist.fsBefore, fs, m.from, m.to)
       /\ BothPlansMoves \subseteq PlannedMoves
            => /\ MovedTo(hist.fsBefore, fs, P_OLD_PLANS_LOCAL, P_PLANS_LOCAL)
               /\ \/ /\ run.err \in {"dest already exists.", "Failed to move"}
                     /\ run.done < Len(run.changes.moves)
                     /\ \A q \in Under(hist.fsBefore, P_TASKS) : fs[q] = hist.fsBefore[q]
                  \/ /\ host.git = "tracked"
                     /\ MovedTo(hist.fsBefore, fs, P_TASKS, P_PLANS \o <<"tasks">>)

C28_WitnessThrows ==
    /\ AppliedAsPlanned /\ BothPlansMoves \subseteq PlannedMoves
    /\ host.git = "none" /\ run.err = "dest already exists."

C28_WitnessNested ==
    /\ AppliedAsPlanned /\ BothPlansMoves \subseteq PlannedMoves
    /\ host.git = "tracked" /\ Lstat(fs, P_PLANS \o <<"tasks", "t.md">>)

C28_WitnessMoved ==
    /\ AppliedAsPlanned /\ ~NestedDestinations /\ Len(run.changes.moves) = 2
    /\ host.git = "tracked" /\ run.err = "none"

(***************************************************************************)
(* determineAction after an upgrade (project-detector.js analyzeStructure, *)
(* determineAction; upgrade.js plan, apply)                                *)
(***************************************************************************)
\* an upgrade that determineAction asked for, planned and applied to its end
UpgradeCompleted ==
    /\ AppliedAsPlanned /\ run.err = "none"
    /\ determineAction(hist.fsPlan, host, run.pkg) = "upgrade"

\* C29: for every target state in which determineAction returns "upgrade",
\* after upgrade.plan and upgrade.apply completed without error a new call of
\* determineAction on the resulting tree returns "none".
C29_UpgradeConverges ==
    UpgradeCompleted => determineAction(fs, host, run.pkg) = "none"

\* what holds: after such an upgrade a new plan holds no move and no legacy
\* move, and determineAction does not return "scaffold".
C29_UpgradeLeavesNoMove ==
    UpgradeCompleted
    => /\ PlanMoves(fs) = <<>> /\ PlanLegacy(fs) = <<>>
       /\ determineAction(fs, host, run.pkg) \in {"upgrade", "none"}

C29_WitnessAgain ==
    /\ UpgradeCompleted /\ run.pkg = "context-forge"
    /\ determineAction(fs, host, run.pkg) = "upgrade"
    /\ ~analysisOf(fs, host, run.pkg).hasOldStructure

C29_WitnessAgainOld ==
    /\ UpgradeCompleted /\ run.pkg = "context-forge"
    /\ analysisOf(fs, host, run.pkg).hasOldStructure

C29_WitnessAgainCli ==
    /\ UpgradeCompleted /\ run.mode = "cli"
    /\ determineAction(fs, host, run.pkg) = "upgrade"

C29_WitnessNone ==
    /\ UpgradeCompleted /\ determineAction(fs, host, run.pkg) = "none"

(***************************************************************************)
(* One migration of the skill's migrateFiles, by the lists it fills        *)
(***************************************************************************)
SkillMoved == pc = "moved" /\ txt.who = "skill"

C30_WitnessSkipped ==
    /\ SkillMoved /\ ~Exists(txt.before, txt.pair.from) /\ Exists(txt.before, txt.pair.to)
    /\ txt.successful = <<>> /\ txt.failed = <<>>

C30_WitnessMoved ==
    /\ SkillMoved /\ txt.successful # <<>> /\ txt.successful[1].method = "fs move"
    /\ host.git = "untracked"


====
